---- MODULE Spec2Model ----
(***************************************************************************)
(* A model of the DEVONthink MCP server: the tool dispatcher, the tools'   *)
(* own input checks, the synthesis of the JXA scripts and what those       *)
(* scripts do to the application when the executor runs them.              *)
(*                                                                         *)
(* Text is a sequence of tokens.  A token is either one of the special     *)
(* characters below or an ordinary run of characters ("U1", "DB1",         *)
(* "Database not found: ").  Concatenation is \o.                          *)
(***************************************************************************)
EXTENDS Integers, Sequences, FiniteSets, TLC

VARIABLES
    app,        \* the external application: open databases, records
    req,        \* the tool call being answered: [tool, args]
    res,        \* what the dispatcher gave back: a result or a thrown McpError
    env,        \* what the environment did during the call (see Oracles)
    execCalls,  \* how many times executeJxa was invoked for this call
    extCalls,   \* the application calls the script made, in order
    interp,     \* the caller values interpolated into the script: {[field, how]}
    calls,      \* tool calls answered so far
    inFlight,   \* the calls whose run function is awaiting its subprocess
    built       \* how the return path the script took built its result (see Script)

vars == <<app, req, res, env, execCalls, extCalls, interp, calls, inFlight, built>>

\* Bound on the number of tool calls of a behaviour.
MaxCalls == 2

-----------------------------------------------------------------------------
(* Characters with a meaning inside a double-quoted JavaScript literal. *)
DQ == "\""
BS == "\\"
NL == "<LF>"
CTRL == "<0x01>"

(* JavaScript values: undefined, null, strings, numbers, booleans. *)
Undef == [t |-> "undef"]
Null == [t |-> "null"]
Str(s) == [t |-> "str", s |-> s]
Num(n) == [t |-> "num", n |-> n]
Bool(b) == [t |-> "bool", b |-> b]

IsStr(v) == v.t = "str"
IsNum(v) == v.t = "num"

\* JavaScript truthiness, as the templates' `x ? ... : ...` and the scripts' if (x) use it.
Truthy(v) ==
    CASE v.t = "str" -> v.s # <<>>
      [] v.t = "num" -> v.n # 0
      [] v.t = "bool" -> v.b
      [] OTHER -> FALSE

\* Does text hay contain text needle (a non-empty run of tokens)?
Contains(hay, needle) ==
    \E i \in 0..(Len(hay) - Len(needle)) : SubSeq(hay, i + 1, i + Len(needle)) = needle

\* String(n) / "..." + n in JavaScript.
NumText(n) == <<ToString(n)>>

-----------------------------------------------------------------------------
(* The Sanitizer (utils/escapeString): spec section 4.1 and testable property 1. *)

\* isSafe: false for a text holding a double quote, a backslash or a disallowed
\* control character; a newline is on the allow-list.
isJXASafeString(s) == \A i \in 1..Len(s) : s[i] \notin {DQ, BS, CTRL}

RECURSIVE escapeStringForJXA(_)
\* escape: backslashes, double quotes and newlines are written as escape sequences.
escapeStringForJXA(s) ==
    IF s = <<>> THEN <<>>
    ELSE LET c == Head(s)
             e == CASE c = BS -> <<BS, BS>>
                    [] c = DQ -> <<BS, DQ>>
                    [] c = NL -> <<BS, "n">>
                    [] OTHER -> <<c>>
         IN  e \o escapeStringForJXA(Tail(s))

(* What the JXA interpreter reads when the template places `body` between two
   double quotes: the literal's value, or Broken when the literal ends early
   (an unescaped double quote), runs over a raw line break or ends in a lone
   backslash.  A backslash before any other character stands for that character. *)
Broken == [t |-> "broken"]
BrokenMark == "<broken literal>"

RECURSIVE JsLiteralText(_)
JsLiteralText(body) ==
    IF body = <<>> THEN <<>>
    ELSE LET c == Head(body) IN
         IF c = DQ \/ c = NL THEN <<BrokenMark>>
         ELSE IF c = BS
              THEN IF Len(body) = 1 THEN <<BrokenMark>>
                   ELSE LET d == body[2]
                            v == IF d = "n" THEN NL ELSE IF d = "u0001" THEN CTRL ELSE d
                        IN  <<v>> \o JsLiteralText(SubSeq(body, 3, Len(body)))
              ELSE <<c>> \o JsLiteralText(Tail(body))

JsStringLiteral(body) ==
    LET v == JsLiteralText(body) IN
    IF \E i \in 1..Len(v) : v[i] = BrokenMark THEN Broken ELSE Str(v)

\* `${x ? `"${escapeStringForJXA(x)}"` : "null"}`: the value the script sees.
EscapedOrNull(x) == IF Truthy(x) THEN JsStringLiteral(escapeStringForJXA(x.s)) ELSE Null

\* `${n !== undefined ? n : "null"}`: the value the script sees.  The value is
\* written into the script as it is, so anything but a number is not a literal.
NumberOrNull(n) == IF n.t = "undef" THEN Null ELSE IF IsNum(n) THEN n ELSE Broken

IsBroken(v) == v.t = "broken"

-----------------------------------------------------------------------------
(* The external application.  Databases are open in a fixed order; a record is
   known globally by its UUID and, inside its database, by its numeric id. *)

DB1 == <<"DB1">>
DB2 == <<"DB2">>
OpenDatabases == <<DB1, DB2>>

RecIds == {"r1", "r2", "g1", "n1"}
NoRec == "none"
Root == "root"

RecUuid(r) == CASE r = "r1" -> <<"U1">> [] r = "r2" -> <<"U2">> [] r = "g1" -> <<"G1">> [] OTHER -> <<"N1">>
RecNum(r) == CASE r = "r1" -> 1 [] r = "r2" -> 1 [] r = "g1" -> 2 [] OTHER -> 3

InitRecords ==
    [r \in RecIds |->
        CASE r = "r1" -> [present |-> TRUE, db |-> 1, type |-> <<"markdown">>, name |-> <<"a">>,
                          parent |-> Root, tags |-> << <<"t1">>, <<"t2">> >>, content |-> <<"hello">>]
          [] r = "r2" -> [present |-> TRUE, db |-> 2, type |-> <<"markdown">>, name |-> <<"b">>,
                          parent |-> Root, tags |-> <<>>, content |-> <<>>]
          [] r = "g1" -> [present |-> TRUE, db |-> 1, type |-> <<"group">>, name |-> <<"g">>,
                          parent |-> Root, tags |-> <<>>, content |-> <<>>]
          [] OTHER    -> [present |-> FALSE, db |-> 1, type |-> <<"markdown">>, name |-> <<>>,
                          parent |-> Root, tags |-> <<>>, content |-> <<>>]]

\* record.location() + record.name(): the record's place inside its database.
PathOf(a, r) ==
    IF a.recs[r].parent = Root THEN <<"/">> \o a.recs[r].name
    ELSE <<"/">> \o a.recs[a.recs[r].parent].name \o <<"/">> \o a.recs[r].name

\* theApp.getRecordWithUuid(u)
AppRecordWithUuid(a, u) ==
    IF \E r \in RecIds : a.recs[r].present /\ RecUuid(r) = u
    THEN CHOOSE r \in RecIds : a.recs[r].present /\ RecUuid(r) = u
    ELSE NoRec

\* database.getRecordWithId(n)
AppRecordWithId(a, d, n) ==
    IF \E r \in RecIds : a.recs[r].present /\ a.recs[r].db = d /\ RecNum(r) = n
    THEN CHOOSE r \in RecIds : a.recs[r].present /\ a.recs[r].db = d /\ RecNum(r) = n
    ELSE NoRec

\* database.getRecordAt(path)
AppRecordAt(a, d, path) ==
    IF \E r \in RecIds : a.recs[r].present /\ a.recs[r].db = d /\ PathOf(a, r) = path
    THEN CHOOSE r \in RecIds : a.recs[r].present /\ a.recs[r].db = d /\ PathOf(a, r) = path
    ELSE NoRec

\* theApp.databases().find(db => db.name() === name): the first open database of that name, 0 if none.
FindDatabase(name) ==
    IF \E i \in 1..Len(OpenDatabases) : OpenDatabases[i] = name
    THEN CHOOSE i \in 1..Len(OpenDatabases) :
            OpenDatabases[i] = name /\ \A j \in 1..(i - 1) : OpenDatabases[j] # name
    ELSE 0

\* error.toString() of a JavaScript Error with that message.
ErrorToString(msg) == <<"Error: ">> \o msg

(* A step of a script either yields a value or throws; either way it has made
   some application calls. *)
Ok(v, cs) == [ok |-> TRUE, val |-> v, msg |-> <<>>, calls |-> cs]
Throw(m, cs) == [ok |-> FALSE, val |-> 0, msg |-> m, calls |-> cs]

-----------------------------------------------------------------------------
(* The helpers injected into the scripts (utils/jxaHelpers): spec sections 4.3, 4.4. *)

\* getDatabase(theApp, name): the named open database, or the current one.
getDatabase(a, name) ==
    IF ~Truthy(name)
    THEN IF a.current = 0
         THEN Throw(<<"No current database">>, <<"currentDatabase">>)
         ELSE Ok(a.current, <<"currentDatabase">>)
    ELSE IF FindDatabase(name.s) = 0
         THEN Throw(<<"Database not found: ">> \o name.s, <<"databases">>)
         ELSE Ok(FindDatabase(name.s), <<"databases">>)

\* getRecord(theApp, options): uuid, else id in options.database, else path in it.
getRecord(a, o) ==
    IF Truthy(o.uuid)
    THEN LET r == AppRecordWithUuid(a, o.uuid.s) IN
         [record |-> r, calls |-> <<"getRecordWithUuid">>,
          error |-> IF r = NoRec THEN <<"Record not found with UUID: ">> \o o.uuid.s ELSE <<>>]
    ELSE IF IsNum(o.id)
    THEN LET r == AppRecordWithId(a, o.database, o.id.n) IN
         [record |-> r, calls |-> <<"getRecordWithId">>,
          error |-> IF r = NoRec
                    THEN <<"Record not found with ID: ">> \o NumText(o.id.n)
                             \o <<" in database ">> \o OpenDatabases[o.database]
                    ELSE <<>>]
    ELSE IF Truthy(o.path)
    THEN LET r == AppRecordAt(a, o.database, o.path.s) IN
         [record |-> r, calls |-> <<"getRecordAt">>,
          error |-> IF r = NoRec
                    THEN <<"Record not found at path: ">> \o o.path.s
                             \o <<" in database ">> \o OpenDatabases[o.database]
                    ELSE <<>>]
    ELSE [record |-> NoRec, calls |-> <<>>, error |-> <<"No identifier provided">>]

-----------------------------------------------------------------------------
(* Operation results and what a tool's run function hands to the dispatcher. *)

\* JSON.stringify / JSON.parse keep the fields that are not undefined.
Payload(success, error, data) == [success |-> success, error |-> error, data |-> data]
Fail(msg) == Payload(Bool(FALSE), Str(msg), <<>>)

\* "<label> contains invalid characters": the error of a failed isJXASafeString check.
InvalidCharacters(label) == <<label, " contains invalid characters">>

\* A synthesized script: whether the interpreter can parse it, and what running it
\* does.  form is how the return path taken builds what it serializes: "literal" for
\* return JSON.stringify({ ... }), "assigned" for an empty mapping filled by bracket
\* assignment (see Assigned).
Script(a, out, cs) ==
    [broken |-> FALSE, threw |-> FALSE, out |-> out, app |-> a, calls |-> cs, form |-> "literal"]
BrokenScript(a) ==
    [broken |-> TRUE, threw |-> FALSE, out |-> Fail(<<>>), app |-> a, calls |-> <<>>, form |-> "none"]
\* A script that ends with a throw no catch block of its own takes.
Uncaught(a, cs) ==
    [broken |-> FALSE, threw |-> TRUE, out |-> Fail(<<>>), app |-> a, calls |-> cs, form |-> "none"]
\* const result = {}; result["success"] = ...; return JSON.stringify(result);
Assigned(script) == [script EXCEPT !.form = IF script.broken THEN "none" ELSE "assigned"]
\* } catch (error) { return JSON.stringify({ success: false, error: error.toString() }) }
Caught(a, msg, cs) == Script(a, Fail(ErrorToString(msg)), cs)

\* The message of an error thrown by the application itself.
AppError == <<"<application error>">>

\* The tool returned without building a script.
Local(a, out) ==
    [kind |-> "return", result |-> out, message |-> <<>>, app |-> a,
     execCalls |-> 0, extCalls |-> <<>>, interp |-> {}, built |-> "none"]

\* An executor that starts the subprocess a second time when the first cannot run.
executeJxaRetrying(a, script, oracle, ip) ==
    IF oracle = "nospawn"
    THEN [kind |-> "throw", result |-> Fail(<<>>), message |-> <<"osascript could not be run">>,
          app |-> a, execCalls |-> 2, extCalls |-> <<>>, interp |-> ip, built |-> "none"]
    ELSE IF script.broken
    THEN [kind |-> "throw", result |-> Fail(<<>>), message |-> <<"osascript: syntax error">>,
          app |-> a, execCalls |-> 1, extCalls |-> <<>>, interp |-> ip, built |-> "none"]
    ELSE IF script.threw
    THEN [kind |-> "throw", result |-> Fail(<<>>), message |-> <<"osascript: execution error">>,
          app |-> script.app, execCalls |-> 1, extCalls |-> script.calls, interp |-> ip,
          built |-> "none"]
    ELSE IF oracle = "badjson"
    THEN [kind |-> "throw", result |-> Fail(<<>>), message |-> <<"output is not valid JSON">>,
          app |-> script.app, execCalls |-> 1, extCalls |-> script.calls, interp |-> ip,
          built |-> script.form]
    ELSE [kind |-> "return", result |-> script.out, message |-> <<>>,
          app |-> script.app, execCalls |-> 1, extCalls |-> script.calls, interp |-> ip,
          built |-> script.form]

(* executeJxa(script) (applescript/execute): spec section 4.6.  One subprocess
   per call; it throws when the subprocess cannot run or reports a syntax
   or runtime error, or when what the script printed is not one JSON document, and
   otherwise returns the parsed JSON document. *)
executeJxa(a, script, oracle, ip) ==
    IF oracle = "nospawn"
    THEN [kind |-> "throw", result |-> Fail(<<>>), message |-> <<"osascript could not be run">>,
          app |-> a, execCalls |-> 1, extCalls |-> <<>>, interp |-> ip, built |-> "none"]
    ELSE IF script.broken
    THEN [kind |-> "throw", result |-> Fail(<<>>), message |-> <<"osascript: syntax error">>,
          app |-> a, execCalls |-> 1, extCalls |-> <<>>, interp |-> ip, built |-> "none"]
    ELSE IF script.threw
    THEN [kind |-> "throw", result |-> Fail(<<>>), message |-> <<"osascript: execution error">>,
          app |-> script.app, execCalls |-> 1, extCalls |-> script.calls, interp |-> ip,
          built |-> "none"]
    ELSE IF oracle = "badjson"
    THEN [kind |-> "throw", result |-> Fail(<<>>), message |-> <<"output is not valid JSON">>,
          app |-> script.app, execCalls |-> 1, extCalls |-> script.calls, interp |-> ip,
          built |-> script.form]
    ELSE [kind |-> "return", result |-> script.out, message |-> <<>>,
          app |-> script.app, execCalls |-> 1, extCalls |-> script.calls, interp |-> ip,
          built |-> script.form]

\* One caller value written into the script text.
Piece(field, v, how, checked) == [field |-> field, val |-> v, how |-> how, checked |-> checked]

-----------------------------------------------------------------------------
(* delete_record *)

DeleteRecordSchema(in) ==
    /\ ~in.extra
    /\ in.uuid.t \in {"undef", "str"}
    /\ in.recordId.t \in {"undef", "num"}
    /\ in.recordPath.t \in {"undef", "str"}
    /\ in.databaseName.t \in {"undef", "str"}
    /\ (in.uuid.t # "undef" \/ in.recordId.t # "undef" \/ in.recordPath.t # "undef")

\* The "Build detailed error message" block shared by the record-addressed tools.
DetailedError(lkError, pId, pUuid, pPath, dbName) ==
    IF Truthy(pId)
    THEN <<"Record with ID ">> \o NumText(pId.n) \o <<" not found in database '">> \o dbName \o <<"'">>
    ELSE IF Truthy(pUuid)
    THEN <<"Record with UUID ">> \o pUuid.s \o <<" not found">>
    ELSE IF Truthy(pPath)
    THEN <<"Record at DEVONthink location path ">> \o pPath.s \o <<" not found">>
    ELSE lkError

\* A recordId that is the text of an expression.  `id: ${recordId}` writes it into the
\* script as it is, and the interpreter evaluates it where a number was meant.
ExpressionText == Str(<<"theApp.delete({record:theApp.getRecordWithUuid('U1')})">>)
ExpressionTarget == <<"U1">>

deleteRecordScript(a, in, oracle) ==
    LET pDb == EscapedOrNull(in.databaseName)
        pUuid == EscapedOrNull(in.uuid)
        isExpr == in.recordId = ExpressionText
        target == AppRecordWithUuid(a, ExpressionTarget)
        pId == IF isExpr THEN Bool(TRUE) ELSE NumberOrNull(in.recordId)
        pPath == EscapedOrNull(in.recordPath)
        db == getDatabase(a, pDb)
        \* the object literal lookupOptions is evaluated before getRecord is called
        a1 == IF isExpr /\ target # NoRec THEN [a EXCEPT !.recs[target].present = FALSE] ELSE a
        ev == IF isExpr THEN <<"getRecordWithUuid", "delete">> ELSE <<>>
        lk == getRecord(a1, [uuid |-> pUuid, id |-> pId, path |-> pPath, name |-> Null,
                             database |-> db.val])
        cs == db.calls \o ev \o lk.calls
    IN  IF IsBroken(pDb) \/ IsBroken(pUuid) \/ IsBroken(pId) \/ IsBroken(pPath) THEN BrokenScript(a)
        ELSE IF ~db.ok THEN Caught(a, db.msg, db.calls)
        ELSE IF isExpr /\ target = NoRec THEN Caught(a, AppError, db.calls \o ev)
        ELSE IF lk.record = NoRec
        THEN IF isExpr
             \* `if (${recordId})` evaluates the expression again, now without its record
             THEN Caught(a1, AppError, cs \o ev)
             ELSE Script(a1, Fail(DetailedError(lk.error, pId, pUuid, pPath, OpenDatabases[db.val])), cs)
        ELSE CASE oracle = "throw" -> Caught(a1, AppError, cs \o <<"delete">>)
               [] oracle = "false" -> Script(a1, Payload(Bool(FALSE), Undef, <<>>), cs \o <<"delete">>)
               [] OTHER -> Script([a1 EXCEPT !.recs[lk.record].present = FALSE],
                                  Payload(Bool(TRUE), Undef, <<>>), cs \o <<"delete">>)

deleteRecord(a, in, oracle) ==
    IF Truthy(in.uuid) /\ ~isJXASafeString(in.uuid.s)
    THEN Local(a, Fail(InvalidCharacters("UUID")))
    ELSE IF Truthy(in.recordPath) /\ ~isJXASafeString(in.recordPath.s)
    THEN Local(a, Fail(InvalidCharacters("Record path")))
    ELSE IF Truthy(in.databaseName) /\ ~isJXASafeString(in.databaseName.s)
    THEN Local(a, Fail(InvalidCharacters("Database name")))
    ELSE executeJxa(a, deleteRecordScript(a, in, oracle), oracle,
                    {Piece("databaseName", in.databaseName, "escaped", TRUE),
                     Piece("uuid", in.uuid, "escaped", TRUE),
                     Piece("recordId", in.recordId, "raw", FALSE),
                     Piece("recordPath", in.recordPath, "escaped", TRUE)})

-----------------------------------------------------------------------------
(* move_record *)

MoveRecordSchema(in) ==
    /\ ~in.extra
    /\ in.uuid.t \in {"undef", "str"}
    /\ in.recordId.t \in {"undef", "num"}
    /\ in.recordName.t \in {"undef", "str"}
    /\ in.recordPath.t \in {"undef", "str"}
    /\ in.destinationGroupUuid.t \in {"undef", "str"}
    /\ in.databaseName.t \in {"undef", "str"}
    /\ (in.uuid.t # "undef" \/ in.recordId.t # "undef" \/ in.recordName.t # "undef"
            \/ in.recordPath.t # "undef")

IsGroupType(ty) == ty = <<"group">> \/ ty = <<"smart group">>

\* theApp.move({ record: r, to: g }): the record now lies in g, in g's database.
AppMove(a, r, g) == [a EXCEPT !.recs[r].parent = g, !.recs[r].db = a.recs[g].db]

\* A destination message that leaves the UUID out.
DestinationNotFoundUnnamed(pDest) == <<"Destination group not found">>

\* "Destination group with UUID not found: " + (pDestinationGroupUuid || "unknown")
DestinationNotFound(pDest) ==
    <<"Destination group with UUID not found: ">> \o (IF Truthy(pDest) THEN pDest.s ELSE <<"unknown">>)

moveRecordScript(a, in, oracle) ==
    LET pDb == EscapedOrNull(in.databaseName)
        pUuid == EscapedOrNull(in.uuid)
        pId == NumberOrNull(in.recordId)
        pPath == EscapedOrNull(in.recordPath)
        pName == EscapedOrNull(in.recordName)
        pDest == EscapedOrNull(in.destinationGroupUuid)
        db == getDatabase(a, pDb)
        lk == getRecord(a, [uuid |-> pUuid, id |-> pId, path |-> pPath, name |-> pName,
                            database |-> db.val])
        cs == db.calls \o lk.calls
        dest == IF Truthy(pDest) THEN AppRecordWithUuid(a, pDest.s) ELSE NoRec
        cs2 == IF Truthy(pDest) THEN cs \o <<"getRecordWithUuid">> ELSE cs
    IN  IF \E v \in {pDb, pUuid, pId, pPath, pName, pDest} : IsBroken(v) THEN BrokenScript(a)
        ELSE IF ~db.ok THEN Caught(a, db.msg, db.calls)
        ELSE IF lk.record = NoRec
        THEN Script(a, Fail(IF Truthy(pId)
                            THEN <<"Record with ID ">> \o NumText(pId.n)
                                     \o <<" not found in database '">> \o OpenDatabases[db.val] \o <<"'">>
                            ELSE lk.error), cs)
        ELSE IF dest = NoRec
        THEN Caught(a, DestinationNotFound(pDest), cs2)
        ELSE IF ~IsGroupType(a.recs[dest].type)
        THEN Caught(a, <<"Destination is not a group. Record type: ">> \o a.recs[dest].type,
                    cs2 \o <<"recordType">>)
        ELSE CASE oracle = "throw" \/ lk.record = dest ->
                    Caught(a, AppError, cs2 \o <<"recordType", "move">>)
               [] oracle = "false" ->
                    Script(a, Fail(<<"Failed to move record">>), cs2 \o <<"recordType", "move">>)
               [] OTHER ->
                    Script(AppMove(a, lk.record, dest),
                           Payload(Bool(TRUE), Undef,
                                   [newLocation |-> <<"/">> \o a.recs[dest].name \o <<"/">>]),
                           cs2 \o <<"recordType", "move">>)

moveRecord(a, in, oracle) ==
    IF Truthy(in.uuid) /\ ~isJXASafeString(in.uuid.s)
    THEN Local(a, Fail(InvalidCharacters("UUID")))
    ELSE IF Truthy(in.recordName) /\ ~isJXASafeString(in.recordName.s)
    THEN Local(a, Fail(InvalidCharacters("Record name")))
    ELSE IF Truthy(in.recordPath) /\ ~isJXASafeString(in.recordPath.s)
    THEN Local(a, Fail(InvalidCharacters("Record path")))
    ELSE IF Truthy(in.destinationGroupUuid) /\ ~isJXASafeString(in.destinationGroupUuid.s)
    THEN Local(a, Fail(InvalidCharacters("Destination UUID")))
    ELSE IF Truthy(in.databaseName) /\ ~isJXASafeString(in.databaseName.s)
    THEN Local(a, Fail(InvalidCharacters("Database name")))
    ELSE executeJxa(a, moveRecordScript(a, in, oracle), oracle,
                    {Piece("databaseName", in.databaseName, "escaped", TRUE),
                     Piece("uuid", in.uuid, "escaped", TRUE),
                     Piece("recordId", in.recordId, "raw", FALSE),
                     Piece("recordPath", in.recordPath, "escaped", TRUE),
                     Piece("recordName", in.recordName, "escaped", TRUE),
                     Piece("destinationGroupUuid", in.destinationGroupUuid, "escaped", TRUE)})

-----------------------------------------------------------------------------
(* rename_record *)

RenameRecordSchema(in) ==
    /\ ~in.extra
    /\ in.uuid.t = "str"
    /\ in.newName.t = "str"
    /\ in.databaseName.t \in {"undef", "str"}

renameRecordScript(a, in, oracle) ==
    LET pUuid == EscapedOrNull(in.uuid)
        pDb == EscapedOrNull(in.databaseName)
        pNew == EscapedOrNull(in.newName)
        lk == getRecord(a, [uuid |-> pUuid, id |-> Null, path |-> Null, name |-> Null, database |-> 0])
        shown == IF Truthy(pUuid) THEN pUuid.s ELSE <<"unknown">>
    IN  IF IsBroken(pUuid) \/ IsBroken(pDb) \/ IsBroken(pNew) THEN BrokenScript(a)
        ELSE IF lk.record = NoRec
        THEN Script(a, Fail(<<"Record with UUID ">> \o shown \o <<" not found">>), lk.calls)
        ELSE IF Truthy(pDb) /\ OpenDatabases[a.recs[lk.record].db] # pDb.s
        THEN Script(a, Fail(<<"Record with UUID ">> \o shown \o <<" not found in database ">> \o pDb.s),
                    lk.calls \o <<"database">>)
        ELSE IF oracle = "throw" \/ ~IsStr(pNew)
        THEN Caught(a, AppError, lk.calls \o <<"setName">>)
        ELSE Script([a EXCEPT !.recs[lk.record].name = pNew.s],
                    Payload(Bool(TRUE), Undef, <<>>), lk.calls \o <<"setName">>)

renameRecord(a, in, oracle) ==
    IF ~isJXASafeString(in.uuid.s)
    THEN Local(a, Fail(InvalidCharacters("UUID")))
    ELSE IF ~isJXASafeString(in.newName.s)
    THEN Local(a, Fail(InvalidCharacters("New name")))
    ELSE IF Truthy(in.databaseName) /\ ~isJXASafeString(in.databaseName.s)
    THEN Local(a, Fail(InvalidCharacters("Database name")))
    ELSE executeJxa(a, renameRecordScript(a, in, oracle), oracle,
                    {Piece("uuid", in.uuid, "escaped", TRUE),
                     Piece("databaseName", in.databaseName, "escaped", TRUE),
                     Piece("newName", in.newName, "escaped", TRUE)})

-----------------------------------------------------------------------------
(* remove_tags and add_tags *)

RECURSIVE JsonEscape(_)
\* The text JSON.stringify writes between the double quotes of a string.
JsonEscape(s) ==
    IF s = <<>> THEN <<>>
    ELSE LET c == Head(s)
             e == CASE c = BS -> <<BS, BS>>
                    [] c = DQ -> <<BS, DQ>>
                    [] c = NL -> <<BS, "n">>
                    [] c = CTRL -> <<BS, "u0001">>
                    [] OTHER -> <<c>>
         IN  e \o JsonEscape(Tail(s))

\* ${JSON.stringify(tags)}: the array of strings the script sees.
JsonStringifyTags(tags) == [i \in 1..Len(tags.a) |-> JsStringLiteral(JsonEscape(tags.a[i].s))]

\* `Tag "${tag}" contains invalid characters` for the first tag that fails the check.
FirstUnsafeTag(tags) ==
    CHOOSE i \in 1..Len(tags.a) :
        ~isJXASafeString(tags.a[i].s) /\ \A j \in 1..(i - 1) : isJXASafeString(tags.a[j].s)
TagInvalid(tag) == <<"Tag ", DQ>> \o tag \o <<DQ, " contains invalid characters">>

\* for (const tag of tags) over a value that is not an array.
NotIterable(a) ==
    [kind |-> "throw", result |-> Fail(<<>>), message |-> <<"tags is not iterable">>,
     app |-> a, execCalls |-> 0, extCalls |-> <<>>, interp |-> {}, built |-> "none"]

RemoveTagsSchema(in) ==
    /\ ~in.extra
    /\ in.uuid.t = "str"
    /\ in.tags.t = "arr"
    /\ \A i \in 1..Len(in.tags.a) : in.tags.a[i].t = "str"
    /\ in.databaseName.t \in {"undef", "str"}

\* A filter that drops the first listed tag only.
RemainingTagsFirstOnly(existingTags, tagsToRemove) ==
    SelectSeq(existingTags, LAMBDA t : tagsToRemove = <<>> \/ t # tagsToRemove[1].s)

\* existingTags.filter(tag => !tagsToRemove.has(tag))
RemainingTags(existingTags, tagsToRemove) ==
    SelectSeq(existingTags, LAMBDA t : \A i \in 1..Len(tagsToRemove) : t # tagsToRemove[i].s)

RECURSIVE Deduplicated(_)
\* A tag list with every tag kept at its first place only.
Deduplicated(tags) ==
    IF tags = <<>> THEN <<>>
    ELSE LET front == Deduplicated(SubSeq(tags, 1, Len(tags) - 1))
             last == tags[Len(tags)]
         IN  IF \E i \in 1..Len(front) : front[i] = last THEN front ELSE Append(front, last)

\* record.tags = list: the application keeps the list as assigned, or keeps one
\* entry per tag.
AppSetTags(a, r, list, oracle) ==
    [a EXCEPT !.recs[r].tags = IF oracle = "dedupe" THEN Deduplicated(list) ELSE list]

removeTagsScript(a, in, oracle) ==
    LET pUuid == EscapedOrNull(in.uuid)
        pDb == EscapedOrNull(in.databaseName)
        pTags == JsonStringifyTags(in.tags)
        lk == getRecord(a, [uuid |-> pUuid, id |-> Null, path |-> Null, name |-> Null, database |-> 0])
        shown == IF Truthy(pUuid) THEN pUuid.s ELSE <<"unknown">>
    IN  IF IsBroken(pUuid) \/ IsBroken(pDb) \/ \E i \in 1..Len(pTags) : IsBroken(pTags[i])
        THEN BrokenScript(a)
        ELSE IF lk.record = NoRec
        THEN Script(a, Fail(<<"Record with UUID ">> \o shown \o <<" not found">>), lk.calls)
        ELSE IF Truthy(pDb) /\ OpenDatabases[a.recs[lk.record].db] # pDb.s
        THEN Script(a, Fail(<<"Record with UUID ">> \o shown \o <<" not found in database ">> \o pDb.s),
                    lk.calls \o <<"database">>)
        ELSE IF oracle = "throw"
        THEN Caught(a, AppError, lk.calls \o <<"tags">>)
        ELSE Script(AppSetTags(a, lk.record, RemainingTags(a.recs[lk.record].tags, pTags), oracle),
                    Payload(Bool(TRUE), Undef, <<>>), lk.calls \o <<"tags", "setTags">>)

removeTags(a, in, oracle) ==
    IF ~isJXASafeString(in.uuid.s)
    THEN Local(a, Fail(InvalidCharacters("UUID")))
    ELSE IF in.tags.t # "arr"
    THEN NotIterable(a)
    ELSE IF \E i \in 1..Len(in.tags.a) : ~isJXASafeString(in.tags.a[i].s)
    THEN Local(a, Fail(TagInvalid(in.tags.a[FirstUnsafeTag(in.tags)].s)))
    ELSE IF Truthy(in.databaseName) /\ ~isJXASafeString(in.databaseName.s)
    THEN Local(a, Fail(InvalidCharacters("Database name")))
    ELSE executeJxa(a, removeTagsScript(a, in, oracle), oracle,
                    {Piece("uuid", in.uuid, "escaped", TRUE),
                     Piece("databaseName", in.databaseName, "escaped", TRUE),
                     Piece("tags", in.tags, "json", TRUE)})

AddTagsSchema(in) ==
    /\ ~in.extra
    /\ in.uuid.t = "str"
    /\ in.tags.t = "arr"
    /\ \A i \in 1..Len(in.tags.a) : in.tags.a[i].t = "str"

addTagsScript(a, in, oracle) ==
    LET pUuid == EscapedOrNull(in.uuid)
        pTags == JsonStringifyTags(in.tags)
        lk == getRecord(a, [uuid |-> pUuid, id |-> Null, path |-> Null, name |-> Null, database |-> 0])
        shown == IF Truthy(pUuid) THEN pUuid.s ELSE <<"unknown">>
    IN  IF IsBroken(pUuid) \/ \E i \in 1..Len(pTags) : IsBroken(pTags[i])
        THEN BrokenScript(a)
        ELSE IF lk.record = NoRec
        THEN Script(a, Fail(<<"Record with UUID ">> \o shown \o <<" not found">>), lk.calls)
        ELSE IF oracle = "throw"
        THEN Caught(a, AppError, lk.calls \o <<"tags">>)
        ELSE Script(AppSetTags(a, lk.record,
                               a.recs[lk.record].tags \o [i \in 1..Len(pTags) |-> pTags[i].s], oracle),
                    Payload(Bool(TRUE), Undef, <<>>), lk.calls \o <<"tags", "setTags">>)

addTags(a, in, oracle) ==
    IF ~isJXASafeString(in.uuid.s)
    THEN Local(a, Fail(InvalidCharacters("UUID")))
    ELSE IF in.tags.t # "arr"
    THEN NotIterable(a)
    ELSE IF \E i \in 1..Len(in.tags.a) : ~isJXASafeString(in.tags.a[i].s)
    THEN Local(a, Fail(TagInvalid(in.tags.a[FirstUnsafeTag(in.tags)].s)))
    ELSE executeJxa(a, addTagsScript(a, in, oracle), oracle,
                    {Piece("uuid", in.uuid, "escaped", TRUE),
                     Piece("tags", in.tags, "json", TRUE)})

-----------------------------------------------------------------------------
(* create_record *)

CreateRecordSchema(in) ==
    /\ ~in.extra
    /\ in.name.t = "str"
    /\ in.type.t = "str"
    /\ in.content.t \in {"undef", "str"}
    /\ in.parentGroupUuid.t \in {"undef", "str"}
    /\ in.databaseName.t \in {"undef", "str"}

\* `${v}`: the text a template literal writes for a value.
TemplateText(v) ==
    CASE v.t = "str" -> v.s
      [] v.t = "num" -> NumText(v.n)
      [] v.t = "undef" -> <<"undefined">>
      [] OTHER -> <<"null">>

\* "${v}": the value written between double quotes as it is.
RawLiteral(v) == JsStringLiteral(TemplateText(v))
\* "${v || ""}"
RawOrEmpty(v) == JsStringLiteral(IF Truthy(v) THEN TemplateText(v) ELSE <<>>)

\* content.replace(/`/g, "\\`") between backquotes: only the backquote is escaped, so
\* a double quote or a line break is kept and a backslash still starts an escape.
RECURSIVE TemplateLiteralText(_)
TemplateLiteralText(body) ==
    IF body = <<>> THEN <<>>
    ELSE LET c == Head(body) IN
         IF c = BS
         THEN IF Len(body) = 1 THEN <<BrokenMark>>
              ELSE <<IF body[2] = "n" THEN NL ELSE body[2]>>
                       \o TemplateLiteralText(SubSeq(body, 3, Len(body)))
         ELSE <<c>> \o TemplateLiteralText(Tail(body))

ContentLiteral(v) ==
    IF ~Truthy(v) THEN Undef
    ELSE LET t == TemplateLiteralText(v.s) IN
         IF \E i \in 1..Len(t) : t[i] = BrokenMark THEN Broken ELSE Str(t)

\* The record createRecordWith makes takes the free slot, if the model has one left.
NewRec == "n1"

createRecordScript(a, in, oracle) ==
    LET dbTest == RawOrEmpty(in.databaseName)
        dbLit == RawLiteral(in.databaseName)
        parentTest == RawOrEmpty(in.parentGroupUuid)
        parentLit == RawLiteral(in.parentGroupUuid)
        nameLit == RawLiteral(in.name)
        typeLit == RawLiteral(in.type)
        content == ContentLiteral(in.content)
        named == Truthy(dbTest)
        target == IF named THEN FindDatabase(dbLit.s) ELSE a.current
        cs == <<IF named THEN "databases" ELSE "currentDatabase">>
        given == Truthy(parentTest)
        parent == IF given THEN AppRecordWithUuid(a, parentLit.s) ELSE Root
        cs2 == cs \o <<IF given THEN "getRecordWithUuid" ELSE "incomingGroup">>
    IN  IF \E v \in {dbTest, dbLit, parentTest, parentLit, nameLit, typeLit, content} : IsBroken(v)
        THEN BrokenScript(a)
        ELSE IF named /\ target = 0
        THEN Caught(a, <<"Database not found: ">> \o dbLit.s, cs)
        ELSE IF given /\ parent = NoRec
        THEN Caught(a, <<"Parent group with UUID not found: ">> \o parentLit.s, cs2)
        ELSE IF (~given /\ target = 0) \/ oracle = "throw"
        THEN Caught(a, AppError, cs2)
        ELSE IF oracle = "false" \/ a.recs[NewRec].present
        THEN Script(a, Fail(<<"Failed to create record">>), cs2 \o <<"createRecordWith">>)
        ELSE Script([a EXCEPT !.recs[NewRec] =
                        [present |-> TRUE, db |-> IF given THEN a.recs[parent].db ELSE target,
                         type |-> typeLit.s, name |-> nameLit.s, parent |-> parent, tags |-> <<>>,
                         content |-> IF IsStr(content) THEN content.s ELSE <<>>]],
                    Payload(Bool(TRUE), Undef,
                            [recordId |-> RecNum(NewRec), name |-> nameLit.s, uuid |-> RecUuid(NewRec)]),
                    cs2 \o <<"createRecordWith">>)

createRecord(a, in, oracle) ==
    executeJxa(a, createRecordScript(a, in, oracle), oracle,
               {Piece("databaseName", in.databaseName, "raw", FALSE),
                Piece("parentGroupUuid", in.parentGroupUuid, "raw", FALSE),
                Piece("name", in.name, "raw", FALSE),
                Piece("type", in.type, "raw", FALSE),
                Piece("content", in.content, "raw", FALSE)})

-----------------------------------------------------------------------------
(* The read-only tools: get_record_content, get_record_properties, is_running *)

GetRecordContentSchema(in) ==
    /\ ~in.extra
    /\ in.uuid.t = "str"
    /\ in.databaseName.t \in {"undef", "str"}

getRecordContentScript(a, in, oracle) ==
    LET pUuid == EscapedOrNull(in.uuid)
        pDb == EscapedOrNull(in.databaseName)
        lk == getRecord(a, [uuid |-> pUuid, id |-> Null, path |-> Null, name |-> Null, database |-> 0])
        shown == IF Truthy(pUuid) THEN pUuid.s ELSE <<"unknown">>
    IN  IF IsBroken(pUuid) \/ IsBroken(pDb) THEN BrokenScript(a)
        ELSE IF lk.record = NoRec
        THEN Script(a, Fail(<<"Record with UUID ">> \o shown \o <<" not found">>), lk.calls)
        ELSE IF Truthy(pDb) /\ OpenDatabases[a.recs[lk.record].db] # pDb.s
        THEN Script(a, Fail(<<"Record with UUID ">> \o shown \o <<" not found in database ">> \o pDb.s),
                    lk.calls \o <<"database">>)
        ELSE IF oracle = "throw"
        THEN Caught(a, AppError, lk.calls \o <<"recordType">>)
        ELSE Script(a, Payload(Bool(TRUE), Undef, [content |-> a.recs[lk.record].content]),
                    lk.calls \o <<"recordType", "plainText">>)

getRecordContent(a, in, oracle) ==
    IF ~isJXASafeString(in.uuid.s)
    THEN Local(a, Fail(InvalidCharacters("UUID")))
    ELSE IF Truthy(in.databaseName) /\ ~isJXASafeString(in.databaseName.s)
    THEN Local(a, Fail(InvalidCharacters("Database name")))
    ELSE executeJxa(a, getRecordContentScript(a, in, oracle), oracle,
                    {Piece("uuid", in.uuid, "escaped", TRUE),
                     Piece("databaseName", in.databaseName, "escaped", TRUE)})

GetRecordPropertiesSchema(in) ==
    /\ ~in.extra
    /\ in.uuid.t \in {"undef", "str"}
    /\ in.recordId.t \in {"undef", "num"}
    /\ in.recordPath.t \in {"undef", "str"}
    /\ in.databaseName.t \in {"undef", "str"}
    /\ (in.uuid.t # "undef" \/ in.recordId.t # "undef" \/ in.recordPath.t # "undef")

getRecordPropertiesScript(a, in, oracle) ==
    LET pDb == EscapedOrNull(in.databaseName)
        pUuid == EscapedOrNull(in.uuid)
        isExpr == in.recordId = ExpressionText
        target == AppRecordWithUuid(a, ExpressionTarget)
        pId == IF isExpr THEN Bool(TRUE) ELSE NumberOrNull(in.recordId)
        pPath == EscapedOrNull(in.recordPath)
        db == getDatabase(a, pDb)
        \* the object literal lookupOptions is evaluated before getRecord is called
        a1 == IF isExpr /\ target # NoRec THEN [a EXCEPT !.recs[target].present = FALSE] ELSE a
        ev == IF isExpr THEN <<"getRecordWithUuid", "delete">> ELSE <<>>
        lk == getRecord(a1, [uuid |-> pUuid, id |-> pId, path |-> pPath, name |-> Null,
                             database |-> db.val])
        cs == db.calls \o ev \o lk.calls
    IN  IF IsBroken(pDb) \/ IsBroken(pUuid) \/ IsBroken(pId) \/ IsBroken(pPath) THEN BrokenScript(a)
        ELSE IF ~db.ok THEN Caught(a, db.msg, db.calls)
        ELSE IF isExpr /\ target = NoRec THEN Caught(a, AppError, db.calls \o ev)
        ELSE IF lk.record = NoRec
        THEN IF isExpr
             \* `if (${recordId})` evaluates the expression again, now without its record
             THEN Caught(a1, AppError, cs \o ev)
             ELSE Script(a1, Fail(DetailedError(lk.error, pId, pUuid, pPath, OpenDatabases[db.val])), cs)
        ELSE IF oracle = "throw"
        THEN Caught(a1, AppError, cs \o <<"id">>)
        ELSE Script(a1, Payload(Bool(TRUE), Undef,
                                [id |-> RecNum(lk.record), uuid |-> RecUuid(lk.record),
                                 name |-> a1.recs[lk.record].name, tags |-> a1.recs[lk.record].tags]),
                    cs \o <<"id", "uuid", "name", "tags", "plainText">>)

getRecordProperties(a, in, oracle) ==
    IF Truthy(in.uuid) /\ ~isJXASafeString(in.uuid.s)
    THEN Local(a, Fail(InvalidCharacters("UUID")))
    ELSE IF Truthy(in.recordPath) /\ ~isJXASafeString(in.recordPath.s)
    THEN Local(a, Fail(InvalidCharacters("Record path")))
    ELSE IF Truthy(in.databaseName) /\ ~isJXASafeString(in.databaseName.s)
    THEN Local(a, Fail(InvalidCharacters("Database name")))
    ELSE executeJxa(a, getRecordPropertiesScript(a, in, oracle), oracle,
                    {Piece("databaseName", in.databaseName, "escaped", TRUE),
                     Piece("uuid", in.uuid, "escaped", TRUE),
                     Piece("recordId", in.recordId, "raw", FALSE),
                     Piece("recordPath", in.recordPath, "escaped", TRUE)})

IsRunningSchema(in) == ~in.extra

\* const isRunning = app.running(); JSON.stringify({ isRunning })
\* The script has no try/catch of its own.
isRunningScript(a, oracle) ==
    IF oracle = "throw" THEN Uncaught(a, <<"running">>)
    ELSE Script(a, Payload(Undef, Undef, [isRunning |-> oracle # "false"]), <<"running">>)

isRunning(a, oracle) == executeJxa(a, isRunningScript(a, oracle), oracle, {})

-----------------------------------------------------------------------------
(* The DevonThinkTool base class and the tools built with createDevonThinkTool. *)

Arr(xs) == [t |-> "arr", a |-> xs]
\* A mapping: its keys in the order Object.entries gives them, and their values.
Obj(ks, vs) == [t |-> "obj", k |-> ks, v |-> vs]

\* formatValue(value): the value the script sees where the expression is placed.
RECURSIVE formatValue(_)
formatValue(v) ==
    CASE v.t \in {"undef", "null"} -> Null
      [] v.t = "str" -> JsStringLiteral(escapeStringForJXA(v.s))
      [] v.t \in {"num", "bool"} -> v
      [] v.t = "arr" -> Arr([i \in 1..Len(v.a) |-> formatValue(v.a[i])])
      [] v.t = "obj" -> Obj(v.k, [i \in 1..Len(v.v) |-> formatValue(v.v[i])])
      [] OTHER -> Broken

\* The elements written one after the other with nothing but a comma between them.
RECURSIVE JoinNoSpace(_)
JoinNoSpace(texts) ==
    IF texts = <<>> THEN <<>>
    ELSE IF Len(texts) = 1 THEN texts[1]
    ELSE texts[1] \o <<",">> \o JoinNoSpace(Tail(texts))

\* texts.join(", ")
RECURSIVE Join(_)
Join(texts) ==
    IF texts = <<>> THEN <<>>
    ELSE IF Len(texts) = 1 THEN texts[1]
    ELSE texts[1] \o <<", ">> \o Join(Tail(texts))

\* lines.join(" ")
RECURSIVE JoinLines(_)
JoinLines(lines) ==
    IF lines = <<>> THEN <<>>
    ELSE IF Len(lines) = 1 THEN lines[1]
    ELSE lines[1] \o <<" ">> \o JoinLines(Tail(lines))

\* The mapping written as an object literal with its keys.
ObjectLiteral(keys, texts) ==
    <<"({ ">> \o Join([i \in 1..Len(keys) |->
                          <<DQ>> \o escapeStringForJXA(keys[i]) \o <<DQ, ": ">> \o texts[i]])
        \o <<" })">>

\* (function() { const obj = {}; obj["key"] = <text>; ... return obj; })()
ObjectExpression(keys, texts) ==
    LET lines == <<<<"const obj = {};">>>>
                   \o [i \in 1..Len(keys) |->
                          <<"obj[", DQ>> \o escapeStringForJXA(keys[i]) \o <<DQ, "] = ">>
                              \o texts[i] \o <<";">>]
    IN  <<"(function() { ">> \o JoinLines(lines) \o <<" return obj; })()">>

\* formatValue(value): the text it returns, to be placed in the script.
RECURSIVE formatValueText(_)
formatValueText(v) ==
    CASE v.t \in {"undef", "null"} -> <<"null">>
      [] v.t = "str" -> <<DQ>> \o escapeStringForJXA(v.s) \o <<DQ>>
      [] v.t = "num" -> NumText(v.n)
      [] v.t = "bool" -> <<IF v.b THEN "true" ELSE "false">>
      [] v.t = "arr" -> <<"[">> \o Join([i \in 1..Len(v.a) |-> formatValueText(v.a[i])]) \o <<"]">>
      [] v.t = "obj" -> ObjectExpression(v.k, [i \in 1..Len(v.v) |-> formatValueText(v.v[i])])
      [] OTHER -> <<"undefined">>

\* wrapInTryCatch(code) with the default handler: a throw inside the code becomes
\* { success: false, error: error.toString() }.
wrapInTryCatch(a, step, onOk) ==
    IF step.ok THEN onOk ELSE Assigned(Script(a, Fail(ErrorToString(step.msg)), step.calls))

\* The fragment buildDatabaseLookup(databaseName) writes, run against the application.
buildDatabaseLookup(a, databaseName) ==
    IF ~Truthy(databaseName)
    THEN Ok(a.current, <<"currentDatabase">>)
    ELSE LET lit == JsStringLiteral(escapeStringForJXA(databaseName.s)) IN
         IF FindDatabase(lit.s) = 0
         THEN Throw(<<"Database not found: ">> \o lit.s, <<"databases">>)
         ELSE Ok(FindDatabase(lit.s), <<"databases">>)

\* The fragment buildRecordLookup(uuid, id, path, databaseName) writes, run against
\* the application: the record it binds, or the error it throws.
buildRecordLookup(a, uuid, id, path, databaseName) ==
    IF Truthy(uuid)
    THEN LET lit == JsStringLiteral(escapeStringForJXA(uuid.s))
             r == AppRecordWithUuid(a, lit.s)
         IN  IF r = NoRec
             THEN Throw(<<"Record not found with UUID: ">> \o lit.s, <<"getRecordWithUuid">>)
             ELSE Ok(r, <<"getRecordWithUuid">>)
    ELSE IF id.t \notin {"undef", "null"}
    THEN LET db == buildDatabaseLookup(a, databaseName) IN
         IF ~db.ok THEN db
         ELSE IF db.val = 0 THEN Throw(AppError, db.calls \o <<"getRecordWithId">>)
         ELSE LET r == AppRecordWithId(a, db.val, id.n) IN
              IF r = NoRec
              THEN Throw(<<"Record not found with ID: ">> \o NumText(id.n),
                         db.calls \o <<"getRecordWithId">>)
              ELSE Ok(r, db.calls \o <<"getRecordWithId">>)
    ELSE IF Truthy(path)
    THEN LET db == buildDatabaseLookup(a, databaseName)
             lit == JsStringLiteral(escapeStringForJXA(path.s))
         IN  IF ~db.ok THEN db
             ELSE IF db.val = 0 THEN Throw(AppError, db.calls \o <<"getRecordAt">>)
             ELSE LET r == AppRecordAt(a, db.val, lit.s) IN
                  IF r = NoRec
                  THEN Throw(<<"Record not found at path: ">> \o lit.s, db.calls \o <<"getRecordAt">>)
                  ELSE Ok(r, db.calls \o <<"getRecordAt">>)
    ELSE Throw(<<"No record identifier provided">>, <<>>)

\* DevonThinkTool.execute: inputSchema.parse(input) throws a ZodError on a mismatch;
\* otherwise the script is built, wrapped in an IIFE and handed to executeJxa.
execute(a, valid, script, oracle, ip) ==
    IF ~valid
    THEN [kind |-> "throw", result |-> Fail(<<>>), message |-> <<"<ZodError issues>">>,
          app |-> a, execCalls |-> 0, extCalls |-> <<>>, interp |-> {}, built |-> "none"]
    ELSE executeJxa(a, script, oracle, ip)

\* ask_ai_about_documents.  Of AI_ENGINES the sources show the schema's default only.
AI_ENGINES == {<<"ChatGPT">>}
MaxQuestionLen == 10000

AskAiAboutDocumentsSchema(in) ==
    /\ ~in.extra
    /\ in.documentUuids.t = "arr"
    /\ Len(in.documentUuids.a) >= 1
    /\ \A i \in 1..Len(in.documentUuids.a) : in.documentUuids.a[i].t = "str"
    /\ in.question.t = "str"
    /\ Len(in.question.s) >= 1
    /\ Len(in.question.s) <= MaxQuestionLen
    /\ in.engine.t = "undef" \/ (in.engine.t = "str" /\ in.engine.s \in AI_ENGINES)

askAiAboutDocumentsScript(a, in, oracle) ==
    LET uuids == formatValue(in.documentUuids)
        question == formatValue(in.question)
        found == {i \in 1..Len(uuids.a) : AppRecordWithUuid(a, uuids.a[i].s) # NoRec}
        cs == [i \in 1..Len(uuids.a) |-> "getRecordWithUuid"]
        missing == IF found = {} THEN uuids.a[1].s ELSE <<>>
    IN  IF IsBroken(question) \/ \E i \in 1..Len(uuids.a) : IsBroken(uuids.a[i]) THEN BrokenScript(a)
        ELSE IF found = {}
        THEN Assigned(Script(a, Fail(<<"No valid records found: ", "Record not found: ">> \o missing), cs))
        ELSE CASE oracle = "throw" ->
                    Assigned(Script(a, Fail(<<"AI analysis failed: ">> \o ErrorToString(AppError)),
                                    cs \o <<"getChatResponseForMessage">>))
               [] oracle = "false" ->
                    Assigned(Script(a, Fail(<<"AI analysis failed: ">>
                                                \o ErrorToString(<<"AI service returned empty response">>)),
                                    cs \o <<"getChatResponseForMessage">>))
               [] OTHER ->
                    Assigned(Script(a, Payload(Bool(TRUE), Undef,
                                               [response |-> <<"<answer>">>,
                                                recordsAnalyzed |-> Cardinality(found)]),
                                    cs \o <<"getChatResponseForMessage">>))

askAiAboutDocuments(a, in, oracle) ==
    execute(a, AskAiAboutDocumentsSchema(in), askAiAboutDocumentsScript(a, in, oracle), oracle,
            {Piece("documentUuids", in.documentUuids, "formatted", FALSE),
             Piece("question", in.question, "formatted", FALSE),
             Piece("engine", in.engine, "formatted", FALSE)})

-----------------------------------------------------------------------------
(* The server's CallToolRequestSchema handler. *)

-----------------------------------------------------------------------------
(* replicate_record *)

ReplicateRecordSchema(in) ==
    /\ ~in.extra
    /\ in.uuid.t \in {"undef", "str"}
    /\ in.recordId.t \in {"undef", "num"}
    /\ in.recordPath.t \in {"undef", "str"}
    /\ in.destinationGroupUuid.t = "str"
    /\ in.databaseName.t \in {"undef", "str"}
    /\ (in.uuid.t # "undef" \/ in.recordId.t # "undef" \/ in.recordPath.t # "undef")

\* theApp.replicate({ record: r, to: g }): the record now lies in g as well.
AppReplicate(a, r, g) == [a EXCEPT !.replicas = @ \cup {<<r, g>>}]

\* A recordId that is the text of a call of replicate.
ReplicateExpression ==
    Str(<<"theApp.replicate({record:theApp.getRecordWithUuid('U1'),to:theApp.getRecordWithUuid('G1')})">>)

replicateRecordScript(a, in, oracle) ==
    LET pDb == EscapedOrNull(in.databaseName)
        pUuid == EscapedOrNull(in.uuid)
        isExpr == in.recordId = ReplicateExpression
        src == AppRecordWithUuid(a, <<"U1">>)
        to == AppRecordWithUuid(a, <<"G1">>)
        evOk == src # NoRec /\ to # NoRec
        pId == IF isExpr THEN Bool(TRUE) ELSE NumberOrNull(in.recordId)
        pPath == EscapedOrNull(in.recordPath)
        pDest == JsStringLiteral(escapeStringForJXA(in.destinationGroupUuid.s))
        db == getDatabase(a, pDb)
        \* lookupOptions["id"] = ${recordId} is evaluated before getRecord is called
        a1 == IF isExpr /\ evOk THEN AppReplicate(a, src, to) ELSE a
        ev == IF isExpr THEN <<"getRecordWithUuid", "getRecordWithUuid", "replicate">> ELSE <<>>
        lk == getRecord(a1, [uuid |-> pUuid, id |-> pId, path |-> pPath, name |-> Null,
                             database |-> db.val])
        cs == db.calls \o ev \o lk.calls
        dest == AppRecordWithUuid(a1, pDest.s)
        cs2 == cs \o <<"getRecordWithUuid">>
        cs3 == cs2 \o <<"recordType", "database", "database">>
    IN  IF \E v \in {pDb, pUuid, pId, pPath, pDest} : IsBroken(v) THEN BrokenScript(a)
        ELSE IF ~db.ok THEN Caught(a, db.msg, db.calls)
        ELSE IF isExpr /\ ~evOk THEN Caught(a, AppError, db.calls \o ev)
        ELSE IF lk.record = NoRec
        THEN IF isExpr
             \* `if (${recordId})` and `"Record with ID " + ${recordId}` evaluate it again
             THEN Script(a1, Fail(<<"Record with ID [object] not found in database '">>
                                      \o OpenDatabases[db.val] \o <<"'">>), cs \o ev \o ev)
             ELSE Script(a1, Fail(DetailedError(lk.error, pId, pUuid, pPath, OpenDatabases[db.val])), cs)
        ELSE IF dest = NoRec
        THEN Script(a1, Fail(<<"Destination group with UUID ">> \o pDest.s \o <<" not found">>), cs2)
        ELSE IF ~IsGroupType(a1.recs[dest].type)
        THEN Script(a1, Fail(<<"Destination UUID does not refer to a group. Type: ">>
                                 \o a1.recs[dest].type), cs2 \o <<"recordType">>)
        ELSE IF a1.recs[lk.record].db # a1.recs[dest].db
        THEN Script(a1, Fail(<<"Source and destination must be in the same database for replication. Source: '">>
                                 \o OpenDatabases[a1.recs[lk.record].db] \o <<"', Destination: '">>
                                 \o OpenDatabases[a1.recs[dest].db] \o <<"'">>), cs3)
        ELSE CASE oracle = "throw" ->
                    Script(a1, Fail(<<"Failed to replicate record: ">> \o ErrorToString(AppError)),
                           cs3 \o <<"replicate">>)
               [] oracle = "false" ->
                    Script(a1, Fail(<<"Replication returned no result">>), cs3 \o <<"replicate">>)
               [] OTHER ->
                    Assigned(Script(AppReplicate(a1, lk.record, dest),
                                    Payload(Bool(TRUE), Undef, [replicatedRecord |-> RecUuid(lk.record)]),
                                    cs3 \o <<"replicate">>))

replicateRecord(a, in, oracle) ==
    IF Truthy(in.uuid) /\ ~isJXASafeString(in.uuid.s)
    THEN Local(a, Fail(InvalidCharacters("UUID")))
    ELSE IF Truthy(in.recordPath) /\ ~isJXASafeString(in.recordPath.s)
    THEN Local(a, Fail(InvalidCharacters("Record path")))
    ELSE IF Truthy(in.destinationGroupUuid) /\ ~isJXASafeString(in.destinationGroupUuid.s)
    THEN Local(a, Fail(InvalidCharacters("Destination group UUID")))
    ELSE IF Truthy(in.databaseName) /\ ~isJXASafeString(in.databaseName.s)
    THEN Local(a, Fail(InvalidCharacters("Database name")))
    ELSE executeJxa(a, replicateRecordScript(a, in, oracle), oracle,
                    {Piece("databaseName", in.databaseName, "escaped", TRUE),
                     Piece("uuid", in.uuid, "escaped", TRUE),
                     Piece("recordId", in.recordId, "raw", FALSE),
                     Piece("recordPath", in.recordPath, "escaped", TRUE),
                     Piece("destinationGroupUuid", in.destinationGroupUuid, "escaped", TRUE)})

-----------------------------------------------------------------------------
(* search *)

SearchSchema(in) ==
    /\ ~in.extra
    /\ in.query.t = "str"
    /\ in.groupUuid.t \in {"undef", "str"}
    /\ in.groupId.t \in {"undef", "num"}
    /\ in.groupPath.t \in {"undef", "str"}
    /\ in.databaseName.t \in {"undef", "str"}
    /\ in.useCurrentGroup.t \in {"undef", "bool"}
    /\ in.recordType = Undef \/ (in.recordType.t = "str" /\ in.recordType.s \in {<<"group">>, <<"markdown">>, <<"PDF">>, <<"bookmark">>, <<"formatted note">>,
                                      <<"txt">>, <<"rtf">>, <<"rtfd">>, <<"webarchive">>,
                                      <<"quicktime">>, <<"picture">>, <<"smart group">>})
    /\ in.limit.t \in {"undef", "num"}
    /\ ~(in.groupId.t # "undef" /\ ~Truthy(in.databaseName))
    /\ ~(Truthy(in.groupPath) /\ ~Truthy(in.databaseName))
    /\ ~(Truthy(in.useCurrentGroup)
            /\ (Truthy(in.groupUuid) \/ Truthy(in.groupId) \/ Truthy(in.groupPath)))

\* const { ..., limit = 50 } = input
DefaultLimit == 50

\* `const pLimit = ${limit};` with the default put in for an absent limit.
LimitOrDefault(limit) ==
    CASE limit.t = "undef" -> Num(DefaultLimit)
      [] limit.t \in {"num", "null"} -> limit
      [] OTHER -> Broken

\* The query as the script's string literal holds it.
escapeSearchQuery(s) == escapeStringForJXA(s)

\* Array.prototype.slice(0, end): a negative end counts from the end of the list,
\* null counts as 0.
Slice(list, end) ==
    LET n == IF end.t = "null" THEN 0 ELSE end.n
        k == IF n < 0 THEN (IF Len(list) + n < 0 THEN 0 ELSE Len(list) + n)
             ELSE IF n < Len(list) THEN n ELSE Len(list)
    IN  SubSeq(list, 1, k)

\* Where a search looks: in one database, or in one group.
DatabaseScope(d) == [kind |-> "db", db |-> d, group |-> NoRec]
GroupScope(g) == [kind |-> "group", db |-> 0, group |-> g]

\* theApp.search(query, { in: scope }): the records of the scope the query matches, in
\* the application's order; "*" matches every record, any other query the records of
\* that name.
AppSearch(a, query, scope) ==
    SelectSeq(<<"r1", "g1", "r2", "n1">>,
              LAMBDA r : /\ a.recs[r].present
                         /\ (query = <<"*">> \/ a.recs[r].name = query)
                         /\ CASE scope.kind = "db" -> a.recs[r].db = scope.db
                              [] scope.kind = "group" -> a.recs[r].parent = scope.group
                              [] OTHER -> TRUE)

\* searchResults.filter(record => record.recordType() === pRecordType)
FilterByType(a, list, pRecordType) ==
    IF Truthy(pRecordType)
    THEN SelectSeq(list, LAMBDA r : IsStr(pRecordType) /\ a.recs[r].type = pRecordType.s)
    ELSE list

\* theApp.currentGroup(): nothing is selected in the application's window.
CurrentGroup(a) == NoRec

\* { success: true, results: [...], totalCount: n }
SearchPayload(results, n) ==
    Payload(Bool(TRUE), Undef, [results |-> [i \in 1..Len(results) |-> RecUuid(results[i])],
                                totalCount |-> n])

searchScript(a, in, oracle) ==
    LET pGroupUuid == EscapedOrNull(in.groupUuid)
        pGroupId == NumberOrNull(in.groupId)
        pGroupPath == EscapedOrNull(in.groupPath)
        pDb == EscapedOrNull(in.databaseName)
        pUseCurrentGroup == in.useCurrentGroup = Bool(TRUE)
        pRecordType == formatValue(in.recordType)
        pLimit == LimitOrDefault(in.limit)
        pQuery == JsStringLiteral(escapeSearchQuery(in.query.s))
        db == getDatabase(a, pDb)
        lk == getRecord(a, [uuid |-> pGroupUuid, id |-> pGroupId, path |-> pGroupPath,
                            name |-> Null, database |-> db.val])
        byGroup == Truthy(pGroupUuid) \/ Truthy(pGroupId) \/ Truthy(pGroupPath)
        scope == IF byGroup THEN GroupScope(lk.record) ELSE DatabaseScope(db.val)
        cs == IF pUseCurrentGroup THEN db.calls \o <<"currentGroup">>
              ELSE IF byGroup THEN db.calls \o lk.calls \o <<"recordType">>
              ELSE db.calls
        found == AppSearch(a, pQuery.s, scope)
        filtered == FilterByType(a, found, pRecordType)
    IN  IF \E v \in {pGroupUuid, pGroupId, pGroupPath, pDb, pRecordType, pLimit, pQuery} : IsBroken(v)
        THEN BrokenScript(a)
        ELSE IF ~db.ok THEN Caught(a, db.msg, db.calls)
        ELSE IF pUseCurrentGroup /\ CurrentGroup(a) = NoRec
        THEN Script(a, Fail(<<"No group is currently selected in DEVONthink">>), cs)
        ELSE IF ~pUseCurrentGroup /\ byGroup /\ lk.record = NoRec
        THEN Script(a, Fail(CASE Truthy(pGroupUuid) -> <<"Group with UUID not found: ">> \o pGroupUuid.s
                              [] Truthy(pGroupId) ->
                                    <<"Group with ID ">> \o NumText(pGroupId.n)
                                        \o <<" not found in database '">> \o OpenDatabases[db.val] \o <<"'">>
                              [] OTHER -> <<"Group at path not found: ">> \o pGroupPath.s),
                    db.calls \o lk.calls)
        ELSE IF ~pUseCurrentGroup /\ byGroup /\ ~IsGroupType(a.recs[lk.record].type)
        THEN Script(a, Fail(<<"Specified record is not a group. Type: ">> \o a.recs[lk.record].type), cs)
        ELSE CASE oracle = "throw" ->
                    Script(a, Fail(<<"Error executing search: ">> \o ErrorToString(AppError)),
                           cs \o <<"search">>)
               [] oracle = "false" \/ found = <<>> ->
                    Script(a, SearchPayload(<<>>, 0), cs \o <<"search">>)
               [] OTHER ->
                    Script(a, SearchPayload(Slice(filtered, pLimit), Len(filtered)), cs \o <<"search">>)

search(a, in, oracle) ==
    IF ~isJXASafeString(in.query.s)
    THEN Local(a, Fail(InvalidCharacters("Search query")))
    ELSE IF Truthy(in.groupUuid) /\ ~isJXASafeString(in.groupUuid.s)
    THEN Local(a, Fail(InvalidCharacters("Group UUID")))
    ELSE IF Truthy(in.groupPath) /\ ~isJXASafeString(in.groupPath.s)
    THEN Local(a, Fail(InvalidCharacters("Group path")))
    ELSE IF Truthy(in.databaseName) /\ ~isJXASafeString(in.databaseName.s)
    THEN Local(a, Fail(InvalidCharacters("Database name")))
    ELSE executeJxa(a, searchScript(a, in, oracle), oracle,
                    {Piece("query", in.query, "escaped", TRUE),
                     Piece("groupUuid", in.groupUuid, "escaped", TRUE),
                     Piece("groupId", in.groupId, "raw", FALSE),
                     Piece("groupPath", in.groupPath, "escaped", TRUE),
                     Piece("databaseName", in.databaseName, "escaped", TRUE),
                     Piece("recordType", in.recordType, "formatted", FALSE),
                     Piece("limit", in.limit, "raw", FALSE)})

-----------------------------------------------------------------------------
(* set_record_properties *)

\* The properties of the input, in the order in which the script sets them.
PropertyOrder ==
    <<"comment", "flag", "locked", "excludeFromChat", "excludeFromClassification",
      "excludeFromSearch", "excludeFromSeeAlso", "excludeFromTagging", "excludeFromWikiLinking">>

SetRecordPropertiesSchema(in) ==
    /\ ~in.extra
    /\ in.uuid.t \in {"undef", "str"}
    /\ in.recordId.t \in {"undef", "num"}
    /\ in.recordPath.t \in {"undef", "str"}
    /\ in.databaseName.t \in {"undef", "str"}
    /\ in.comment.t \in {"undef", "str"}
    /\ \A i \in 2..Len(PropertyOrder) : in[PropertyOrder[i]].t \in {"undef", "bool"}
    /\ (in.uuid.t # "undef" \/ in.recordId.t # "undef" \/ in.recordPath.t # "undef")

\* The name the script sets the property by: setIfProvided("locking", ${locked}).
PropertyName(p) == IF p = "locked" THEN "locking" ELSE p

\* rec[propName] = providedValue
AppAssign(a, r, names) == [a EXCEPT !.assigned = @ \cup {<<r, n>> : n \in names}]

\* What the script does with one property of the input on the record r.
PropertyOutcome(a, r, in, p, oracle) ==
    IF in[p] = Undef THEN "absent"
    ELSE IF p = "excludeFromTagging" /\ ~IsGroupType(a.recs[r].type) THEN "not a group"
    ELSE IF p \notin {"comment", "flag", "locked"} /\ oracle = "false" THEN "not available"
    ELSE IF in[p] = Null THEN "not provided"
    ELSE IF oracle = "throw" THEN "threw"
    ELSE "assigned"

setRecordPropertiesScript(a, in, oracle) ==
    LET pDb == EscapedOrNull(in.databaseName)
        pUuid == EscapedOrNull(in.uuid)
        pId == NumberOrNull(in.recordId)
        pPath == EscapedOrNull(in.recordPath)
        pComment == IF in.comment = Undef THEN Null
                    ELSE JsStringLiteral(escapeStringForJXA(in.comment.s))
        db == getDatabase(a, pDb)
        lk == getRecord(a, [uuid |-> pUuid, id |-> pId, path |-> pPath, name |-> Null,
                            database |-> db.val])
        cs == db.calls \o lk.calls
        outcome(p) == PropertyOutcome(a, lk.record, in, p, oracle)
        set == SelectSeq(PropertyOrder, LAMBDA p : outcome(p) = "assigned")
        not == SelectSeq(PropertyOrder,
                         LAMBDA p : outcome(p) \in {"not a group", "not available", "threw"})
        updated == [i \in 1..Len(set) |-> PropertyName(set[i])]
        skipped == [i \in 1..Len(not) |->
                        <<PropertyName(not[i]), ": ">>
                            \o (IF outcome(not[i]) = "threw" THEN ErrorToString(AppError)
                                ELSE <<outcome(not[i])>>)]
        tried == SelectSeq(PropertyOrder, LAMBDA p : outcome(p) \in {"assigned", "threw"})
    IN  IF \/ \E v \in {pDb, pUuid, pId, pPath, pComment} : IsBroken(v)
           \/ \E i \in 2..Len(PropertyOrder) : in[PropertyOrder[i]].t \notin {"undef", "null", "bool"}
        THEN BrokenScript(a)
        ELSE IF ~db.ok THEN Assigned(Caught(a, db.msg, db.calls))
        ELSE IF lk.record = NoRec
        THEN Assigned(Script(a, Fail(DetailedError(lk.error, pId, pUuid, pPath, OpenDatabases[db.val])),
                             cs))
        ELSE Assigned(Script(AppAssign(a, lk.record, {updated[i] : i \in 1..Len(updated)}),
                             Payload(Bool(TRUE), Undef,
                                     [uuid |-> RecUuid(lk.record), updated |-> updated,
                                      skipped |-> skipped]),
                             cs \o [i \in 1..Len(tried) |-> "set"]))

setRecordProperties(a, in, oracle) ==
    IF Truthy(in.uuid) /\ ~isJXASafeString(in.uuid.s)
    THEN Local(a, Fail(InvalidCharacters("UUID")))
    ELSE IF Truthy(in.recordPath) /\ ~isJXASafeString(in.recordPath.s)
    THEN Local(a, Fail(InvalidCharacters("Record path")))
    ELSE IF Truthy(in.databaseName) /\ ~isJXASafeString(in.databaseName.s)
    THEN Local(a, Fail(InvalidCharacters("Database name")))
    ELSE IF in.comment # Undef /\ ~isJXASafeString(in.comment.s)
    THEN Local(a, Fail(InvalidCharacters("Comment")))
    ELSE executeJxa(a, setRecordPropertiesScript(a, in, oracle), oracle,
                    {Piece("databaseName", in.databaseName, "escaped", TRUE),
                     Piece("uuid", in.uuid, "escaped", TRUE),
                     Piece("recordId", in.recordId, "raw", FALSE),
                     Piece("recordPath", in.recordPath, "escaped", TRUE),
                     Piece("comment", in.comment, "escaped", TRUE)}
                    \cup {Piece(PropertyOrder[i], in[PropertyOrder[i]], "raw", FALSE) :
                            i \in 2..Len(PropertyOrder)})

-----------------------------------------------------------------------------
(* get_record_by_identifier *)

GetRecordByIdentifierSchema(in) ==
    /\ ~in.extra
    /\ in.uuid.t \in {"undef", "str"}
    /\ in.id.t \in {"undef", "num"}
    /\ in.databaseName.t \in {"undef", "str"}
    /\ (in.uuid.t # "undef" \/ (in.id.t # "undef" /\ in.databaseName.t # "undef"))

getRecordByIdentifierScript(a, in, oracle) ==
    LET pUuid == EscapedOrNull(in.uuid)
        pId == NumberOrNull(in.id)
        pDb == EscapedOrNull(in.databaseName)
        db == getDatabase(a, pDb)
        byUuid == getRecord(a, [uuid |-> pUuid, id |-> Null, path |-> Null, name |-> Null,
                                database |-> 0])
        byId == getRecord(a, [uuid |-> Null, id |-> pId, path |-> Null, name |-> Null,
                              database |-> db.val])
        found(r, d, cs) ==
            IF oracle = "throw" THEN Caught(a, AppError, cs \o <<"id">>)
            ELSE Script(a, Payload(Bool(TRUE), Undef,
                                   [record |-> [uuid |-> RecUuid(r), id |-> RecNum(r),
                                                name |-> a.recs[r].name,
                                                database |-> OpenDatabases[d]]]),
                        cs \o <<"id", "uuid", "name">>)
    IN  IF IsBroken(pUuid) \/ IsBroken(pId) \/ IsBroken(pDb) THEN BrokenScript(a)
        ELSE IF Truthy(pUuid)
        THEN IF byUuid.record = NoRec
             THEN Script(a, Fail(<<"Record with UUID ">> \o pUuid.s \o <<" not found">>), byUuid.calls)
             ELSE found(byUuid.record, a.recs[byUuid.record].db, byUuid.calls \o <<"database">>)
        ELSE IF Truthy(pId) /\ Truthy(pDb)
        THEN IF ~db.ok THEN Caught(a, db.msg, db.calls)
             ELSE IF byId.record = NoRec
             THEN Script(a, Fail(<<"Record with ID ">> \o NumText(pId.n)
                                     \o <<" not found in database '">> \o pDb.s \o <<"'">>),
                         db.calls \o byId.calls)
             ELSE found(byId.record, db.val, db.calls \o byId.calls)
        \* neither branch is taken: targetRecord.id() is called on undefined
        ELSE Script(a, Fail(<<"TypeError: undefined is not an object">>), <<>>)

getRecordByIdentifier(a, in, oracle) ==
    IF Truthy(in.uuid) /\ ~isJXASafeString(in.uuid.s)
    THEN Local(a, Fail(InvalidCharacters("UUID")))
    ELSE IF Truthy(in.databaseName) /\ ~isJXASafeString(in.databaseName.s)
    THEN Local(a, Fail(InvalidCharacters("Database name")))
    ELSE executeJxa(a, getRecordByIdentifierScript(a, in, oracle), oracle,
                    {Piece("uuid", in.uuid, "escaped", TRUE),
                     Piece("id", in.id, "raw", FALSE),
                     Piece("databaseName", in.databaseName, "escaped", TRUE)})

ToolNames == {"delete_record", "move_record", "rename_record", "create_record",
              "ask_ai_about_documents", "remove_tags", "add_tags",
              "get_record_content", "get_record_properties", "is_running",
              "replicate_record", "search", "set_record_properties",
              "get_record_by_identifier"}

\* The handler with a catch block that answers { success: false, error } instead.
DispatchedAsFailure(run) ==
    IF run.kind = "return"
    THEN [kind |-> "content", result |-> run.result, code |-> "", message |-> <<>>]
    ELSE [kind |-> "content", result |-> Fail(run.message), code |-> "", message |-> <<>>]

\* try { result = await tool.run(args); return content } catch (error) { throw McpError }
Dispatched(run) ==
    IF run.kind = "return"
    THEN [kind |-> "content", result |-> run.result, code |-> "", message |-> <<>>]
    ELSE [kind |-> "McpError", result |-> Fail(<<>>), code |-> "InternalError", message |-> run.message]

\* The schema each registered tool declares as its inputSchema.
inputSchema(tool, in) ==
    CASE tool = "delete_record" -> DeleteRecordSchema(in)
      [] tool = "move_record" -> MoveRecordSchema(in)
      [] tool = "rename_record" -> RenameRecordSchema(in)
      [] tool = "create_record" -> CreateRecordSchema(in)
      [] tool = "ask_ai_about_documents" -> AskAiAboutDocumentsSchema(in)
      [] tool = "remove_tags" -> RemoveTagsSchema(in)
      [] tool = "add_tags" -> AddTagsSchema(in)
      [] tool = "get_record_content" -> GetRecordContentSchema(in)
      [] tool = "get_record_properties" -> GetRecordPropertiesSchema(in)
      [] tool = "is_running" -> IsRunningSchema(in)
      [] tool = "replicate_record" -> ReplicateRecordSchema(in)
      [] tool = "search" -> SearchSchema(in)
      [] tool = "set_record_properties" -> SetRecordPropertiesSchema(in)
      [] tool = "get_record_by_identifier" -> GetRecordByIdentifierSchema(in)
      [] OTHER -> FALSE

\* Requests that arrive one after the other: the next one comes when the answer
\* to the last has been taken.  (HandlerSpec below has them arrive at any time.)
Idle == res.kind = "none" /\ calls < MaxCalls

Answer(tool, in, oracle, run) ==
    /\ calls' = calls + 1
    /\ env' = oracle
    /\ req' = [tool |-> tool, args |-> in]
    /\ UNCHANGED inFlight
    /\ \E r \in {run} :
        /\ res' = Dispatched(r)
        /\ app' = r.app
        /\ execCalls' = r.execCalls
        /\ extCalls' = r.extCalls
        /\ interp' = r.interp
        /\ built' = r.built

-----------------------------------------------------------------------------
(* The calls the model makes. *)

UuidArgs == {Undef, Str(<<"U1">>), Str(<<"Ux">>), Str(<<"U1", DQ>>)}
IdArgs == {Undef, Num(1), Num(9), Str(<<"1); (">>)}
PathArgs == {Undef, Str(<<"/", "a">>), Str(<<"/", BS>>)}
DbArgs == {Undef, Str(DB2), Str(<<"NoSuchDB">>), Str(<<"DB1", CTRL>>)}
\* What the environment does to the call: the subprocess cannot be started, or the
\* application's own call returns true / a record, returns false / nothing, or throws.
\* With "badjson" the application does what it is asked and the output of the
\* subprocess is not a JSON document.
\* For add_tags there is "dedupe" as well: the application keeps one entry per tag.
Oracles == {"nospawn", "true", "false", "throw", "badjson"}

CallDeleteRecord ==
    /\ Idle
    /\ \E uuid \in UuidArgs, recordId \in IdArgs \cup {ExpressionText}, recordPath \in PathArgs,
       databaseName \in DbArgs, extra \in BOOLEAN, oracle \in Oracles :
        LET in == [uuid |-> uuid, recordId |-> recordId, recordPath |-> recordPath,
                   databaseName |-> databaseName, extra |-> extra]
        IN  /\ extra => (recordId = Undef /\ recordPath = Undef)
            /\ recordId = ExpressionText => recordPath = Undef
            /\ oracle # "true" => (~extra /\ databaseName = Undef /\ recordPath = Undef)
            /\ databaseName # Undef => recordPath = Undef
            /\ Answer("delete_record", in, oracle, deleteRecord(app, in, oracle))

DestArgs == {Undef, Str(<<"G1">>), Str(<<"Gx">>), Str(<<"U2">>), Str(<<"G1", DQ>>)}

CallMoveRecord ==
    /\ Idle
    /\ \E uuid \in UuidArgs, recordId \in {Undef, Num(1), Num(9)}, recordName \in {Undef, Str(<<"a">>)},
       recordPath \in {Undef, Str(<<"/", BS>>)}, destinationGroupUuid \in DestArgs,
       databaseName \in {Undef, Str(<<"NoSuchDB">>), Str(<<"DB1", CTRL>>)},
       extra \in BOOLEAN, oracle \in Oracles :
        LET in == [uuid |-> uuid, recordId |-> recordId, recordName |-> recordName,
                   recordPath |-> recordPath, destinationGroupUuid |-> destinationGroupUuid,
                   databaseName |-> databaseName, extra |-> extra]
        IN  /\ extra => (recordId = Undef /\ recordPath = Undef /\ recordName = Undef)
            /\ oracle # "true" => (~extra /\ databaseName = Undef /\ recordPath = Undef
                                     /\ recordName = Undef /\ recordId = Undef)
            /\ databaseName # Undef => (recordName = Undef /\ recordPath = Undef)
            /\ Answer("move_record", in, oracle, moveRecord(app, in, oracle))

CallRenameRecord ==
    /\ Idle
    /\ \E uuid \in UuidArgs \ {Undef}, newName \in {Str(<<"b">>), Str(<<"b", NL>>), Str(<<DQ, "b">>)},
       databaseName \in DbArgs \cup {Str(<<>>)}, extra \in BOOLEAN, oracle \in Oracles \ {"false"} :
        LET in == [uuid |-> uuid, newName |-> newName, databaseName |-> databaseName, extra |-> extra]
        IN  /\ oracle # "true" => (~extra /\ databaseName = Undef)
            /\ Answer("rename_record", in, oracle, renameRecord(app, in, oracle))

TagArgs == {Undef, Arr(<<>>), Arr(<<Str(<<"t1">>)>>), Arr(<<Str(<<"t2">>), Str(<<"t9">>)>>),
            Arr(<<Str(<<"t1">>), Str(<<"t", DQ>>)>>)}

CallRemoveTags ==
    /\ Idle
    /\ \E uuid \in UuidArgs \ {Undef}, tags \in TagArgs,
          databaseName \in {Undef, Str(DB2), Str(<<"DB1", CTRL>>), Str(<<>>)},
          extra \in BOOLEAN, oracle \in Oracles \ {"false"} :
        LET in == [uuid |-> uuid, tags |-> tags, databaseName |-> databaseName, extra |-> extra]
        IN  /\ oracle # "true" => (~extra /\ databaseName.t = "undef")
            /\ Answer("remove_tags", in, oracle, removeTags(app, in, oracle))

CallAddTags ==
    /\ Idle
    /\ \E uuid \in UuidArgs \ {Undef}, tags \in TagArgs, extra \in BOOLEAN,
          oracle \in (Oracles \ {"false"}) \cup {"dedupe"} :
        LET in == [uuid |-> uuid, tags |-> tags, extra |-> extra]
        IN  /\ oracle # "true" => ~extra
            /\ Answer("add_tags", in, oracle, addTags(app, in, oracle))

CallGetRecordContent ==
    /\ Idle
    /\ \E uuid \in UuidArgs \ {Undef}, databaseName \in DbArgs \cup {Str(<<>>)}, extra \in BOOLEAN,
          oracle \in Oracles \ {"false"} :
        LET in == [uuid |-> uuid, databaseName |-> databaseName, extra |-> extra]
        IN  /\ oracle # "true" => (~extra /\ databaseName = Undef)
            /\ Answer("get_record_content", in, oracle, getRecordContent(app, in, oracle))

CallGetRecordProperties ==
    /\ Idle
    /\ \E uuid \in UuidArgs, recordId \in {Undef, Num(1), ExpressionText}, databaseName \in DbArgs,
          extra \in BOOLEAN, oracle \in Oracles \ {"false"} :
        LET in == [uuid |-> uuid, recordId |-> recordId, recordPath |-> Undef,
                   databaseName |-> databaseName, extra |-> extra]
        IN  /\ oracle # "true" => (~extra /\ databaseName = Undef)
            /\ Answer("get_record_properties", in, oracle, getRecordProperties(app, in, oracle))

CallIsRunning ==
    /\ Idle
    /\ \E extra \in BOOLEAN, oracle \in Oracles :
        Answer("is_running", [extra |-> extra], oracle, isRunning(app, oracle))

CallCreateRecord ==
    /\ Idle
    /\ \E name \in {Str(<<"n">>), Str(<<"n", DQ>>), Str(<<BS, "n">>)}, type \in {Str(<<"markdown">>)},
       content \in {Undef, Str(<<"c", DQ>>)}, parentGroupUuid \in {Undef, Str(<<"G1">>), Str(<<"Gx">>)},
       databaseName \in DbArgs, extra \in BOOLEAN, oracle \in Oracles :
        LET in == [name |-> name, type |-> type, content |-> content,
                   parentGroupUuid |-> parentGroupUuid, databaseName |-> databaseName, extra |-> extra]
        IN  /\ oracle # "true" => (~extra /\ databaseName = Undef)
            /\ Answer("create_record", in, oracle, createRecord(app, in, oracle))

CallAskAiAboutDocuments ==
    /\ Idle
    /\ \E documentUuids \in {Arr(<<>>), Arr(<<Str(<<"U1">>)>>), Arr(<<Str(<<"Ux">>)>>),
                             Arr(<<Str(<<"U1", DQ>>), Str(<<"U2">>)>>), Num(7)},
          question \in {Undef, Str(<<>>), Str(<<"q">>), Str(<<"q", DQ, BS>>)},
          engine \in {Undef, Str(<<"ChatGPT">>)}, extra \in BOOLEAN, oracle \in Oracles :
        LET in == [documentUuids |-> documentUuids, question |-> question, engine |-> engine,
                   extra |-> extra]
        IN  /\ oracle # "true" => (~extra /\ engine.t = "undef")
            /\ Answer("ask_ai_about_documents", in, oracle, askAiAboutDocuments(app, in, oracle))

CallReplicateRecord ==
    /\ Idle
    /\ \E uuid \in {Undef, Str(<<"U1">>), Str(<<"U2">>), Str(<<"Ux">>)},
          recordId \in {Undef, Num(1), ReplicateExpression},
          destinationGroupUuid \in DestArgs \ {Undef},
          databaseName \in {Undef, Str(DB2)}, oracle \in Oracles :
        LET in == [uuid |-> uuid, recordId |-> recordId, recordPath |-> Undef,
                   destinationGroupUuid |-> destinationGroupUuid,
                   databaseName |-> databaseName, extra |-> FALSE]
        IN  /\ oracle # "true" => (databaseName = Undef /\ recordId = Undef
                                     /\ destinationGroupUuid = Str(<<"G1">>))
            /\ (databaseName # Undef \/ recordId # Undef) => destinationGroupUuid = Str(<<"G1">>)
            /\ databaseName # Undef => recordId = Undef
            /\ Answer("replicate_record", in, oracle, replicateRecord(app, in, oracle))

CallSearch ==
    /\ Idle
    /\ \E query \in {Str(<<"*">>), Str(<<"a">>), Str(<<"*", DQ>>)},
          groupUuid \in {Undef, Str(<<"G1">>), Str(<<"U1">>), Str(<<"Gx">>)},
          databaseName \in {Undef, Str(DB2), Str(<<"NoSuchDB">>)},
          useCurrentGroup \in {Undef, Bool(TRUE)},
          recordType \in {Undef, Str(<<"markdown">>)},
          limit \in {Undef, Num(0 - 1), Num(0), Num(1), Num(2), Null}, oracle \in Oracles :
        LET in == [query |-> query, groupUuid |-> groupUuid, groupId |-> Undef,
                   groupPath |-> Undef, databaseName |-> databaseName,
                   useCurrentGroup |-> useCurrentGroup, recordType |-> recordType,
                   limit |-> limit, extra |-> FALSE]
        IN  /\ (groupUuid # Undef \/ useCurrentGroup # Undef \/ databaseName # Undef
                    \/ oracle # "true" \/ query # Str(<<"*">>))
               => (limit = Undef /\ recordType = Undef)
            /\ useCurrentGroup # Undef => (groupUuid = Undef /\ databaseName = Undef)
            /\ databaseName # Undef => groupUuid = Undef
            /\ (oracle # "true" \/ query # Str(<<"*">>))
               => (groupUuid = Undef /\ databaseName = Undef /\ useCurrentGroup = Undef)
            /\ Answer("search", in, oracle, search(app, in, oracle))

\* The properties a set_record_properties request of the model supplies.
SuppliedProperties ==
    {{}, {"comment"}, {"locked"}, {"flag", "excludeFromTagging"}, {"excludeFromChat", "flag"}}

CallSetRecordProperties ==
    /\ Idle
    /\ \E uuid \in {Str(<<"U1">>), Str(<<"G1">>), Str(<<"Ux">>)}, supplied \in SuppliedProperties,
          oracle \in Oracles :
        LET given(p) == IF p \notin supplied THEN Undef
                        ELSE IF p = "comment" THEN Str(<<"c">>) ELSE Bool(TRUE)
            in == [uuid |-> uuid, recordId |-> Undef, recordPath |-> Undef,
                   databaseName |-> Undef, extra |-> FALSE,
                   comment |-> given("comment"), flag |-> given("flag"),
                   locked |-> given("locked"), excludeFromChat |-> given("excludeFromChat"),
                   excludeFromClassification |-> Undef, excludeFromSearch |-> Undef,
                   excludeFromSeeAlso |-> Undef,
                   excludeFromTagging |-> given("excludeFromTagging"),
                   excludeFromWikiLinking |-> Undef]
        IN  /\ oracle \in {"nospawn", "badjson"} => (uuid = Str(<<"U1">>) /\ supplied = {})
            /\ Answer("set_record_properties", in, oracle, setRecordProperties(app, in, oracle))

CallGetRecordByIdentifier ==
    /\ Idle
    /\ \E uuid \in {Undef, Str(<<>>), Str(<<"U1">>), Str(<<"Ux">>), Str(<<"U1", DQ>>)},
          id \in {Undef, Num(0), Num(1), Num(9)},
          databaseName \in {Undef, Str(<<>>), Str(DB1), Str(<<"NoSuchDB">>)},
          oracle \in Oracles :
        LET in == [uuid |-> uuid, id |-> id, databaseName |-> databaseName, extra |-> FALSE]
        IN  /\ oracle # "true" => (id = Undef /\ databaseName = Undef /\ uuid = Str(<<"U1">>))
            /\ Truthy(uuid) => (id = Undef /\ databaseName = Undef)
            /\ Answer("get_record_by_identifier", in, oracle, getRecordByIdentifier(app, in, oracle))

\* The record-lookup fragment of the base class, run inside its try/catch wrapper.
ApplyBuildRecordLookup ==
    /\ Idle
    /\ \E uuid \in {Undef, Str(<<"U1">>), Str(<<"Ux">>)}, id \in {Undef, Num(1), Num(9)},
          path \in {Undef, Str(<<"/", "a">>), Str(<<"/", "zz">>)},
          databaseName \in {Undef, Str(<<>>), Str(DB2), Str(<<"NoSuchDB">>)} :
        LET lk == buildRecordLookup(app, uuid, id, path, databaseName)
            out == wrapInTryCatch(app, lk,
                                  Script(app, Payload(Bool(TRUE), Undef, [record |-> lk.val]), lk.calls))
        IN  /\ calls' = calls + 1
            /\ req' = [tool |-> "buildRecordLookup",
                       args |-> [uuid |-> uuid, id |-> id, path |-> path, databaseName |-> databaseName]]
            /\ res' = [kind |-> "fragment", result |-> out.out, code |-> "", message |-> <<>>]
            /\ extCalls' = out.calls
            /\ env' = "true"
            /\ built' = out.form
            /\ UNCHANGED <<app, execCalls, interp, inFlight>>

\* The handler answering an unknown name like any other failure.
UnknownToolAsInternalError(name) ==
    [kind |-> "McpError", result |-> Fail(<<>>), code |-> "InternalError",
     message |-> <<"Unknown tool: ", name>>]

\* if (!tool) throw new McpError(ErrorCode.MethodNotFound, `Unknown tool: ${name}`)
UnknownTool(name) ==
    [kind |-> "McpError", result |-> Fail(<<>>), code |-> "MethodNotFound",
     message |-> <<"Unknown tool: ", name>>]

\* Bound on the length of the arrays given to formatValue.
MaxArrayLen == 2

\* The values given to formatValue: scalars, arrays of them, arrays in arrays, and
\* mappings, alone, inside arrays and inside other mappings.
FormatScalars ==
    {Null, Undef, Str(<<>>), Str(<<"a", DQ>>), Str(<<BS, NL>>), Num(0), Num(12), Num(-3),
     Bool(TRUE), Bool(FALSE)}
FormatObjects ==
    {Obj(<<>>, <<>>),
     Obj(<< <<"k">> >>, <<Num(1)>>),
     Obj(<< <<"b">>, <<"a", DQ>> >>, <<Str(<<"x">>), Arr(<<Bool(TRUE)>>)>>)}
FormatElements ==
    {Null, Undef, Str(<<"a", DQ>>), Num(-3), Bool(FALSE), Arr(<<Num(1), Str(<<"b">>)>>),
     Obj(<< <<"b">>, <<"a", DQ>> >>, <<Str(<<"x">>), Arr(<<Bool(TRUE)>>)>>)}
FormatValues ==
    FormatScalars
        \cup {Arr(xs) : xs \in UNION {[1..n -> FormatElements] : n \in 0..MaxArrayLen}}
        \cup FormatObjects
        \cup {Obj(<< <<"outer">>, <<"list">> >>, <<o, Arr(<<o>>)>>) : o \in FormatObjects}

\* helpers.formatValue(value) called by a buildScript function.
ApplyFormatValue ==
    /\ Idle
    /\ \E value \in FormatValues :
        /\ calls' = calls + 1
        /\ req' = [tool |-> "formatValue", args |-> [value |-> value]]
        /\ res' = [kind |-> "fragment", result |-> formatValueText(value), code |-> "", message |-> <<>>]
        /\ env' = "true"
        /\ UNCHANGED <<app, execCalls, extCalls, interp, inFlight, built>>

\* A request naming no registered tool.
CallUnknownTool ==
    /\ Idle
    /\ \E name \in {"no_such_tool", ""} :
        /\ name \notin ToolNames
        /\ calls' = calls + 1
        /\ req' = [tool |-> name, args |-> <<>>]
        /\ res' = UnknownTool(name)
        /\ env' = "true"
        /\ UNCHANGED <<app, execCalls, extCalls, interp, inFlight, built>>

\* The dispatcher has returned; nothing of the call is kept.
NextRequest ==
    /\ res.kind # "none"
    /\ req' = [tool |-> "none", args |-> <<>>]
    /\ res' = [kind |-> "none", result |-> Fail(<<>>), code |-> "", message |-> <<>>]
    /\ env' = "idle"
    /\ execCalls' = 0
    /\ extCalls' = <<>>
    /\ interp' = {}
    /\ built' = "none"
    /\ UNCHANGED <<app, calls, inFlight>>

Init ==
    /\ app \in [current : {0, 1}, recs : {InitRecords}, replicas : {{}}, assigned : {{}}]
    /\ req = [tool |-> "none", args |-> <<>>]
    /\ res = [kind |-> "none", result |-> Fail(<<>>), code |-> "", message |-> <<>>]
    /\ env = "idle"
    /\ execCalls = 0
    /\ extCalls = <<>>
    /\ interp = {}
    /\ calls = 0
    /\ inFlight = <<>>
    /\ built = "none"

Next ==
    \/ CallDeleteRecord
    \/ CallMoveRecord
    \/ CallRenameRecord
    \/ CallCreateRecord
    \/ CallRemoveTags
    \/ CallAddTags
    \/ CallGetRecordContent
    \/ CallGetRecordProperties
    \/ CallIsRunning
    \/ CallAskAiAboutDocuments
    \/ CallReplicateRecord
    \/ CallSearch
    \/ CallSetRecordProperties
    \/ CallGetRecordByIdentifier
    \/ ApplyBuildRecordLookup
    \/ ApplyFormatValue
    \/ CallUnknownTool
    \/ NextRequest

Spec == Init /\ [][Next]_vars

-----------------------------------------------------------------------------
(* The handler as the asynchronous function it is.  Its body runs up to
   `await executeJxa(script)` in one piece, with every check of the tool; the
   rest runs when the subprocess has exited.  Nothing in the handler or in the
   run functions keeps a request from being started while another one awaits
   its subprocess: there is no lock, no queue and no flag. *)

\* Bound on the calls awaiting their subprocess at one time.
MaxInFlight == 2

\* tool.run(args).  The requests of this specification (AsyncRequests) name
\* delete_record and add_tags.
Run(tool, a, in, oracle) ==
    CASE tool = "delete_record" -> deleteRecord(a, in, oracle)
      [] tool = "move_record" -> moveRecord(a, in, oracle)
      [] tool = "rename_record" -> renameRecord(a, in, oracle)
      [] tool = "create_record" -> createRecord(a, in, oracle)
      [] tool = "remove_tags" -> removeTags(a, in, oracle)
      [] tool = "add_tags" -> addTags(a, in, oracle)
      [] tool = "get_record_content" -> getRecordContent(a, in, oracle)
      [] tool = "get_record_properties" -> getRecordProperties(a, in, oracle)
      [] tool = "is_running" -> isRunning(a, oracle)
      [] OTHER -> askAiAboutDocuments(a, in, oracle)

\* The requests of this specification: delete_record and add_tags by UUID.
AsyncRequests ==
    {[tool |-> "delete_record",
      args |-> [uuid |-> u, recordId |-> Undef, recordPath |-> Undef, databaseName |-> Undef,
                extra |-> FALSE]] : u \in UuidArgs}
    \cup {[tool |-> "add_tags",
           args |-> [uuid |-> u, tags |-> Arr(<<Str(<<"t1">>)>>), extra |-> FALSE]] : u \in UuidArgs \ {Undef}}

\* A request arrives and the tool answers without reaching the executor.
AnswerAtOnce ==
    /\ calls < MaxCalls
    /\ \E r \in AsyncRequests :
        LET run == Run(r.tool, app, r.args, "true") IN
        /\ run.execCalls = 0
        /\ calls' = calls + 1
        /\ req' = r
        /\ env' = "true"
        /\ res' = Dispatched(run)
        /\ execCalls' = 0
        /\ extCalls' = <<>>
        /\ interp' = run.interp
        /\ built' = run.built
        /\ UNCHANGED <<app, inFlight>>

\* A request arrives, passes the tool's checks, and its subprocess is started.
StartSubprocess ==
    /\ calls < MaxCalls
    /\ Len(inFlight) < MaxInFlight
    /\ \E r \in AsyncRequests :
        /\ Run(r.tool, app, r.args, "true").execCalls = 1
        /\ calls' = calls + 1
        /\ inFlight' = Append(inFlight, r)
        /\ UNCHANGED <<app, req, res, env, execCalls, extCalls, interp, built>>

\* The subprocess of a call in flight exits and the handler returns or throws.
SubprocessExits ==
    \E i \in 1..Len(inFlight), oracle \in Oracles \ {"false"} :
        LET r == inFlight[i]
            run == Run(r.tool, app, r.args, oracle)
        IN  /\ inFlight' = SubSeq(inFlight, 1, i - 1) \o SubSeq(inFlight, i + 1, Len(inFlight))
            /\ req' = r
            /\ env' = oracle
            /\ res' = Dispatched(run)
            /\ app' = run.app
            /\ execCalls' = run.execCalls
            /\ extCalls' = run.extCalls
            /\ interp' = run.interp
            /\ built' = run.built
            /\ UNCHANGED calls

HandlerNext ==
    \/ AnswerAtOnce
    \/ StartSubprocess
    \/ SubprocessExits

HandlerSpec == Init /\ [][HandlerNext]_vars

-----------------------------------------------------------------------------
(* Properties of the dispatcher's answers. *)

Range(f) == {f[i] : i \in DOMAIN f}
Answered == res.kind # "none"
IsResult == res.kind = "content"
Failed == IsResult /\ res.result.success = Bool(FALSE)
Succeeded == IsResult /\ res.result.success = Bool(TRUE)

\* C1: every tool call whose arguments violate the tool's declared schema is
\* answered with an error, and for it no script is synthesized and the executor
\* is not invoked.
C1_SchemaViolationRejected ==
    (req.tool \in ToolNames /\ ~inputSchema(req.tool, req.args))
        => /\ res.kind = "McpError" \/ Failed
           /\ execCalls = 0
           /\ interp = {}

RecordAddressed == {"delete_record", "move_record"}
NoIdentifier(in) == in.uuid.t = "undef" /\ in.recordId.t = "undef" /\ in.recordPath.t = "undef"

\* C2: a record-addressed operation called with none of uuid / id / path fails
\* validation, and the executor is never invoked for that call.
C2_NoIdentifierNeverExecutes ==
    (req.tool \in RecordAddressed /\ NoIdentifier(req.args))
        => (execCalls = 0 /\ (res.kind = "McpError" \/ Failed))

UnsafeValue(v) ==
    \/ v.t = "str" /\ ~isJXASafeString(v.s)
    \/ v.t = "arr" /\ \E i \in 1..Len(v.a) : v.a[i].t = "str" /\ ~isJXASafeString(v.a[i].s)

\* C3: no script is synthesized, and the executor is not invoked, for a call in
\* which a string the operation interpolates holds a double quote, a backslash
\* or a disallowed control character; the call is answered with a failure.
C3_UnsafeStringNeverSynthesized ==
    \A p \in interp : UnsafeValue(p.val) => (execCalls = 0 /\ Failed)

\* C4: every caller value interpolated into a synthesized script went through
\* the sanitizer (isJXASafeString, escapeStringForJXA) or the formatter (formatValue).
C4_EveryInterpolationTreated ==
    \A p \in interp : p.val.t # "undef" => (p.checked \/ p.how \in {"escaped", "formatted"})

CheckedTools == {"delete_record", "move_record", "rename_record", "remove_tags", "add_tags",
                 "get_record_content", "get_record_properties", "replicate_record", "search",
                 "set_record_properties", "get_record_by_identifier"}

\* The fields each tool checks with isJXASafeString, in the order it checks them,
\* each with the words its error uses for the field.
CheckOrder(tool) ==
    CASE tool \in {"delete_record", "get_record_properties"} ->
            << <<"uuid", "UUID">>, <<"recordPath", "Record path">>, <<"databaseName", "Database name">> >>
      [] tool = "move_record" ->
            << <<"uuid", "UUID">>, <<"recordName", "Record name">>, <<"recordPath", "Record path">>,
               <<"destinationGroupUuid", "Destination UUID">>, <<"databaseName", "Database name">> >>
      [] tool = "rename_record" ->
            << <<"uuid", "UUID">>, <<"newName", "New name">>, <<"databaseName", "Database name">> >>
      [] tool = "remove_tags" ->
            << <<"uuid", "UUID">>, <<"tags", "Tag">>, <<"databaseName", "Database name">> >>
      [] tool = "add_tags" ->
            << <<"uuid", "UUID">>, <<"tags", "Tag">> >>
      [] tool = "replicate_record" ->
            << <<"uuid", "UUID">>, <<"recordPath", "Record path">>,
               <<"destinationGroupUuid", "Destination group UUID">>,
               <<"databaseName", "Database name">> >>
      [] tool = "search" ->
            << <<"query", "Search query">>, <<"groupUuid", "Group UUID">>,
               <<"groupPath", "Group path">>, <<"databaseName", "Database name">> >>
      [] tool = "set_record_properties" ->
            << <<"uuid", "UUID">>, <<"recordPath", "Record path">>,
               <<"databaseName", "Database name">>, <<"comment", "Comment">> >>
      [] OTHER ->
            << <<"uuid", "UUID">>, <<"databaseName", "Database name">> >>

UnsafeAt(tool, in, i) == UnsafeValue(in[CheckOrder(tool)[i][1]])
FirstUnsafe(tool, in) ==
    CHOOSE i \in 1..Len(CheckOrder(tool)) :
        UnsafeAt(tool, in, i) /\ \A j \in 1..(i - 1) : ~UnsafeAt(tool, in, j)

\* C5: in a tool that checks its strings with isJXASafeString, a call with an
\* unsafe checked field returns {success: false, error} whose error names the
\* first unsafe field of the tool's check order; the executor is not invoked, no
\* script is synthesized and the application is not called.
C5_FirstUnsafeFieldNamed ==
    (req.tool \in CheckedTools /\ \E i \in 1..Len(CheckOrder(req.tool)) : UnsafeAt(req.tool, req.args, i))
        => /\ Failed
           /\ res.result.error
                = (IF CheckOrder(req.tool)[FirstUnsafe(req.tool, req.args)][1] = "tags"
                   THEN Str(TagInvalid(req.args.tags.a[FirstUnsafeTag(req.args.tags)].s))
                   ELSE Str(<<CheckOrder(req.tool)[FirstUnsafe(req.tool, req.args)][2],
                              " contains invalid characters">>))
           /\ execCalls = 0
           /\ extCalls = <<>>
           /\ interp = {}

\* C6: in every operation result, success = false comes with a non-empty error
\* string and success = true comes with no error field.
C6_SuccessAndErrorPaired ==
    IsResult =>
        /\ res.result.success = Bool(FALSE) => (IsStr(res.result.error) /\ res.result.error.s # <<>>)
        /\ res.result.success = Bool(TRUE) => res.result.error.t = "undef"

\* C7: when uuid is set, the answer of delete_record is the answer the same call
\* gets with recordId and databaseName left out.
C7_UuidAloneDecides ==
    [][(/\ res.kind = "none"
        /\ req'.tool = "delete_record"
        /\ DeleteRecordSchema(req'.args)
        /\ Truthy(req'.args.uuid)
        /\ ~UnsafeValue(req'.args.databaseName))
            => res' = Dispatched(deleteRecord(app, [req'.args EXCEPT !.recordId = Undef,
                                                                        !.databaseName = Undef], env'))]_vars

\* The database a lookup by id or by path is made in: the named one, else the current one.
LookupDatabase(a, databaseName) ==
    IF Truthy(databaseName) THEN FindDatabase(databaseName.s) ELSE a.current

\* A not-found error for the identifier that precedence uuid > id > path selects.
NamesWhatWasLookedUp(a, err, uuid, id, path, databaseName) ==
    LET d == LookupDatabase(a, databaseName) IN
    IF Truthy(uuid)
    THEN AppRecordWithUuid(a, uuid.s) = NoRec => Contains(err, uuid.s)
    ELSE IF IsNum(id)
    THEN (d # 0 /\ AppRecordWithId(a, d, id.n) = NoRec)
            => (Contains(err, NumText(id.n)) /\ Contains(err, OpenDatabases[d]))
    ELSE (Truthy(path) /\ d # 0 /\ AppRecordAt(a, d, path.s) = NoRec)
            => (Contains(err, path.s) /\ Contains(err, OpenDatabases[d]))

\* C8: a not-found error of record resolution contains the identifier that was
\* looked up and, for a lookup by id or by path, the name of the database.
C8_NotFoundNamesIdentifierAndDatabase ==
    /\ (req.tool = "buildRecordLookup" /\ res.result.success = Bool(FALSE))
            => NamesWhatWasLookedUp(app, res.result.error.s, req.args.uuid, req.args.id,
                                    req.args.path, req.args.databaseName)
    /\ (req.tool = "delete_record" /\ DeleteRecordSchema(req.args) /\ Failed
            /\ execCalls = 1 /\ "delete" \notin Range(extCalls) /\ IsStr(res.result.error)
            /\ LookupDatabase(app, req.args.databaseName) # 0)
            => NamesWhatWasLookedUp(app, res.result.error.s, req.args.uuid, req.args.recordId,
                                    req.args.recordPath, req.args.databaseName)

\* C9: resolving by id with a databaseName that matches no open database gives
\* the error "Database not found: <databaseName>" and no record, and the lookup
\* by id is not attempted.
C9_MissingDatabaseError ==
    /\ (req.tool = "buildRecordLookup" /\ ~Truthy(req.args.uuid) /\ IsNum(req.args.id)
            /\ IsStr(req.args.databaseName) /\ FindDatabase(req.args.databaseName.s) = 0)
            => /\ res.result = Fail(<<"Database not found: ">> \o req.args.databaseName.s)
               /\ "getRecordWithId" \notin Range(extCalls)
    /\ (req.tool = "delete_record" /\ DeleteRecordSchema(req.args) /\ IsResult
            /\ ~Truthy(req.args.uuid) /\ IsNum(req.args.recordId)
            /\ IsStr(req.args.databaseName) /\ ~UnsafeValue(req.args.databaseName)
            /\ FindDatabase(req.args.databaseName.s) = 0)
            => /\ res.result = Fail(<<"Database not found: ">> \o req.args.databaseName.s)
               /\ "getRecordWithId" \notin Range(extCalls)

DestinationUnresolved(a, in) ==
    ~Truthy(in.destinationGroupUuid) \/ AppRecordWithUuid(a, in.destinationGroupUuid.s) = NoRec

\* The record move_record is to move resolves: its strings pass the checks, the
\* database is found and the lookup by its identifiers gives a record.
MoveSourceResolves(a, in) ==
    /\ \A i \in 1..Len(CheckOrder("move_record")) : ~UnsafeAt("move_record", in, i)
    /\ getDatabase(a, in.databaseName).ok
    /\ getRecord(a, [uuid |-> in.uuid, id |-> in.recordId, path |-> in.recordPath,
                     name |-> in.recordName,
                     database |-> getDatabase(a, in.databaseName).val]).record # NoRec

SucceedsAt(tool) ==
    /\ res.kind = "none"
    /\ req'.tool = tool
    /\ res'.kind = "content"
    /\ res'.result.success = Bool(TRUE)

TagTexts(tags) == {tags.a[i].s : i \in 1..Len(tags.a)}

\* C11: a successful remove_tags leaves on the record exactly the tags that are
\* not in the argument list, in their old order, and the same call made again,
\* whatever the environment then does, leaves the application as it is.
C11_RemoveTagsIdempotent ==
    [][SucceedsAt("remove_tags") =>
        LET r == AppRecordWithUuid(app, req'.args.uuid.s) IN
        /\ app'.recs[r].tags
             = SelectSeq(app.recs[r].tags, LAMBDA t : t \notin TagTexts(req'.args.tags))
        /\ \A o \in Oracles : removeTags(app', req'.args, o).app = app']_vars

\* remove_tags took t1 off a record tagged t1, t2.
C11_Witness ==
    /\ req.tool = "remove_tags"
    /\ Succeeded
    /\ req.args.uuid = Str(<<"U1">>)
    /\ req.args.tags = Arr(<<Str(<<"t1">>)>>)
    /\ app.recs["r1"].tags = << <<"t2">> >>
    /\ "setTags" \in Range(extCalls)

\* C12: after a successful add_tags, the same call made again leaves the
\* record's tag list as it is.
C12_AddTagsIdempotent ==
    [][SucceedsAt("add_tags") => addTags(app', req'.args, env').app = app']_vars

\* The call being answered makes the executor fail: the subprocess cannot run, its
\* output is not JSON, or the script it is given does not parse.
ExecutorFails ==
    /\ res.kind = "none"
    /\ execCalls' = 1
    /\ \/ env' \in {"nospawn", "badjson"}
       \/ req'.tool = "create_record" /\ createRecordScript(app, req'.args, env').broken
       \/ req'.tool = "delete_record" /\ deleteRecordScript(app, req'.args, env').broken

\* C13: a failure of the executor is answered with an McpError of code InternalError
\* that carries the executor's message, and never with a tool result.
C13_ExecutorFailureIsInternalError ==
    [][ExecutorFails =>
        /\ res'.kind = "McpError"
        /\ res'.code = "InternalError"
        /\ res'.message # <<>>]_vars

C13_Witness ==
    /\ req.tool = "delete_record" /\ env = "badjson" /\ execCalls = 1
    /\ "delete" \in Range(extCalls)
    /\ res.kind = "McpError" /\ res.code = "InternalError"
    /\ res.message = <<"output is not valid JSON">>


\* C14: a call that fails before the executor is invoked (a validation error) or
\* inside the script (a resolution error) is answered with { success: false, error };
\* only a failure of the executor leaves the handler as an error.  In particular a
\* schema violation of ask_ai_about_documents, a createDevonThinkTool tool, is not
\* answered with a thrown internal error.
C14_OnlyExecutorFailuresEscalate ==
    /\ (req.tool \in ToolNames /\ res.kind = "McpError") => execCalls = 1
    /\ (req.tool = "ask_ai_about_documents" /\ Answered /\ ~AskAiAboutDocumentsSchema(req.args))
          => Failed

\* C15: a request whose name is no registered tool is answered with a method-not-found
\* error; no run function is called, no script is built, the executor is not invoked
\* and the application is left as it was.
C15_UnknownToolIsMethodNotFound ==
    [][(res.kind = "none" /\ req'.tool \notin ToolNames \cup {"none", "buildRecordLookup", "formatValue"}) =>
        /\ res'.kind = "McpError"
        /\ res'.code = "MethodNotFound"
        /\ execCalls' = 0 /\ extCalls' = <<>> /\ interp' = {}
        /\ app' = app]_vars

C15_Witness ==
    /\ req.tool = "no_such_tool"
    /\ res = UnknownTool("no_such_tool")
    /\ execCalls = 0 /\ extCalls = <<>>

\* C16: after a successful create_record the record found under the returned UUID
\* has the name, the type and the content that were given (no content given, or the
\* empty string: empty content).
C16_CreateRoundTrip ==
    (req.tool = "create_record" /\ Succeeded) =>
        LET r == AppRecordWithUuid(app, res.result.data.uuid) IN
        /\ r # NoRec
        /\ app.recs[r].name = req.args.name.s
        /\ app.recs[r].type = req.args.type.s
        /\ app.recs[r].content = (IF IsStr(req.args.content) THEN req.args.content.s ELSE <<>>)

\* The tool's own checks reject the arguments: an unsafe string in a field the tool
\* checks, or, for ask_ai_about_documents, arguments its schema does not accept.
ValidationRejects(tool, in) ==
    \/ tool \in CheckedTools /\ \E i \in 1..Len(CheckOrder(tool)) : UnsafeAt(tool, in, i)
    \/ /\ tool \in {"remove_tags", "add_tags"}
       /\ \/ UnsafeValue(in.uuid)
          \/ in.tags.t = "arr" /\ \E i \in 1..Len(in.tags.a) : UnsafeValue(in.tags.a[i])
    \/ tool = "ask_ai_about_documents" /\ ~AskAiAboutDocumentsSchema(in)

\* C17: answering one request invokes the executor at most once, and not at all when
\* the tool's own validation rejects the arguments; a failure of the executor and a
\* { success: false } of the script are answered after that one invocation.
C17_AtMostOneExecutorCall ==
    /\ execCalls <= 1
    /\ (Answered /\ ValidationRejects(req.tool, req.args)) => execCalls = 0
    /\ (Answered /\ env = "nospawn" /\ execCalls > 0) => (res.kind = "McpError" /\ execCalls = 1)
    /\ (Failed /\ extCalls # <<>>) => execCalls = 1

C17_Witness ==
    /\ req.tool = "rename_record" /\ env = "nospawn"
    /\ res.kind = "McpError" /\ res.message = <<"osascript could not be run">>
    /\ execCalls = 1

\* C18: tool calls do not overlap: a request is handled to its answer before any
\* step of the next one, so at most one executor invocation is in flight.
C18_OneInvocationAtATime == Len(inFlight) <= 1

\* The application calls that change its state, and the one each mutating tool names.
MutatingCalls == {"delete", "move", "setName", "setTags", "createRecordWith", "replicate", "set"}
NamedCall(tool) ==
    CASE tool = "delete_record" -> "delete"
      [] tool = "move_record" -> "move"
      [] tool = "rename_record" -> "setName"
      [] tool \in {"remove_tags", "add_tags"} -> "setTags"
      [] tool = "create_record" -> "createRecordWith"
      [] OTHER -> "none"
ReadOnlyTools == {"get_record_content", "get_record_properties", "is_running"}
Mutations == {i \in 1..Len(extCalls) : extCalls[i] \in MutatingCalls}

\* C19: a read-only tool makes no application call that changes state, and a mutating
\* tool makes at most one such call, the one it is named for.
C19_SideEffectsAsNamed ==
    /\ req.tool \in ReadOnlyTools => Mutations = {}
    /\ NamedCall(req.tool) # "none" =>
          /\ Cardinality(Mutations) <= 1
          /\ \A i \in Mutations : extCalls[i] = NamedCall(req.tool)

\* The value is a mapping or holds one at some depth.
RECURSIVE HasMapping(_)
HasMapping(v) ==
    \/ v.t = "obj"
    \/ v.t = "arr" /\ \E i \in 1..Len(v.a) : HasMapping(v.a[i])

\* The text the claim gives for a value: a mapping is a self-invoking function that
\* declares an empty mapping, assigns each key once by bracket assignment, in order,
\* and returns the identifier; null for null and undefined, the escaped text
\* between double quotes for a string, the bare token for a number or a boolean, and
\* for an array the texts of its elements in order, joined by ", ", between brackets.
RECURSIVE ClaimedText(_)
ClaimedText(v) ==
    IF v.t \in {"undef", "null"} THEN <<"null">>
    ELSE IF v.t = "str" THEN <<DQ>> \o escapeStringForJXA(v.s) \o <<DQ>>
    ELSE IF v.t = "num" THEN <<ToString(v.n)>>
    ELSE IF v.t = "bool" THEN (IF v.b THEN <<"true">> ELSE <<"false">>)
    ELSE IF v.t = "obj"
    THEN LET RECURSIVE Assignments(_)
             Assignments(i) ==
                 IF i > Len(v.k) THEN <<>>
                 ELSE <<" ", "obj[", DQ>> \o escapeStringForJXA(v.k[i]) \o <<DQ, "] = ">>
                          \o ClaimedText(v.v[i]) \o <<";">> \o Assignments(i + 1)
         IN  <<"(function() { ", "const obj = {};">> \o Assignments(1) \o <<" return obj; })()">>
    ELSE IF Len(v.a) = 0 THEN <<"[", "]">>
    ELSE LET RECURSIVE Elements(_)
             Elements(i) == IF i = Len(v.a) THEN ClaimedText(v.a[i])
                            ELSE ClaimedText(v.a[i]) \o <<", ">> \o Elements(i + 1)
         IN  <<"[">> \o Elements(1) \o <<"]">>

\* C20: formatValue returns null for null and undefined, a double-quoted literal of
\* the escaped text for a string, the unquoted token for a number or a boolean, and
\* for an array '[' + the formatted elements in order joined by ', ' + ']'.
C20_FormatValueText ==
    (req.tool = "formatValue" /\ ~HasMapping(req.args.value))
        => res.result = ClaimedText(req.args.value)

C20_Witness ==
    /\ req.tool = "formatValue"
    /\ req.args.value = Arr(<<Arr(<<Num(1), Str(<<"b">>)>>), Str(<<"a", DQ>>)>>)
    /\ res.result = <<"[", "[", "1", ", ", DQ, "b", DQ, "]", ", ", DQ, "a", BS, DQ, DQ, "]">>

\* C21: a mapping given to formatValue, alone, inside an array or inside another
\* mapping, is written as a self-invoking function that declares an empty mapping,
\* assigns each key exactly once by bracket assignment in the mapping's key order and
\* returns the identifier: there is no object literal with keys and no dotted assignment.
C21_MappingByBracketAssignment ==
    (req.tool = "formatValue" /\ HasMapping(req.args.value)) =>
        /\ res.result = ClaimedText(req.args.value)
        /\ \A i \in 1..Len(res.result) : res.result[i] \notin {"({ ", "obj.", ": "}

C21_Witness ==
    /\ req.tool = "formatValue"
    /\ req.args.value = Arr(<<Obj(<< <<"b">>, <<"a", DQ>> >>, <<Str(<<"x">>), Arr(<<Bool(TRUE)>>)>>)>>)
    /\ res.result = <<"[", "(function() { ", "const obj = {};", " ", "obj[", DQ, "b", DQ, "] = ",
                       DQ, "x", DQ, ";", " ", "obj[", DQ, "a", BS, DQ, DQ, "] = ", "[", "true", "]", ";",
                       " return obj; })()", "]">>

\* C22: on every return path of every synthesized script, success and failure, the
\* result is an empty mapping filled by bracket assignment before it is serialized;
\* no return path serializes an object literal.
C22_ResultBuiltByAssignment ==
    (Answered /\ execCalls = 1 /\ built # "none") => built = "assigned"

\* The lookup fragment needs a database: no UUID is given, and an id or a path is.
LookupNeedsDatabase(in) == ~Truthy(in.uuid) /\ (in.id.t # "undef" \/ Truthy(in.path))

\* C23: without a database name the current database is used, and the lookup fails
\* when there is none; with a name, the empty string like any other, the first open
\* database of exactly that name is used, and when there is none the lookup fails
\* with "Database not found: <name>".
C23_DatabaseResolution ==
    (req.tool = "buildRecordLookup" /\ LookupNeedsDatabase(req.args)) =>
        /\ (req.args.databaseName.t = "str" /\ FindDatabase(req.args.databaseName.s) = 0)
              => /\ res.result.success = Bool(FALSE)
                 /\ res.result.error
                      = Str(ErrorToString(<<"Database not found: ">> \o req.args.databaseName.s))
        /\ (req.args.databaseName.t = "undef" /\ app.current = 0)
              => res.result.success = Bool(FALSE)

\* C24: when a call of the application throws inside a script, the script catches it
\* and returns { success: false, error }: the call is answered with that result, and
\* no script ends with an uncaught throw.
C24_ApplicationErrorsCaught ==
    (Answered /\ req.tool \in ToolNames /\ execCalls = 1 /\ env = "throw" /\ extCalls # <<>>)
        => Failed

\* The modelled tools that change the record they are given.
RecordMutators == {"delete_record", "move_record", "rename_record", "remove_tags", "add_tags"}

\* C25: when the record a mutating tool is given does not resolve (here: its UUID
\* names no record), the call does not succeed, a script that returns gives
\* { success: false }, no mutating call or assignment is made and the application
\* is left as it was.
C25_UnresolvedTargetNeverMutated ==
    [][(/\ res.kind = "none"
        /\ req'.tool \in RecordMutators
        /\ Truthy(req'.args.uuid)
        /\ AppRecordWithUuid(app, req'.args.uuid.s) = NoRec)
       => /\ res'.kind = "content" => res'.result.success = Bool(FALSE)
          /\ \A i \in 1..Len(extCalls') : extCalls'[i] \notin MutatingCalls
          /\ app' = app]_vars

\* The tools that look the record up by UUID and then compare its database's name.
DatabaseVerified == {"rename_record", "remove_tags", "get_record_content"}

\* C26: when the script of rename_record, remove_tags or get_record_content has run,
\* the UUID resolves and a databaseName is given that is not the name of the record's
\* database, the result is { success: false } with an error that holds the UUID and
\* the database name, and the application is left as it was.
C26_DatabaseNameVerified ==
    [][(/\ res.kind = "none"
        /\ req'.tool \in DatabaseVerified
        /\ res'.kind = "content" /\ execCalls' = 1
        /\ AppRecordWithUuid(app, req'.args.uuid.s) # NoRec
        /\ req'.args.databaseName.t = "str"
        /\ OpenDatabases[app.recs[AppRecordWithUuid(app, req'.args.uuid.s)].db]
              # req'.args.databaseName.s)
       => /\ res'.result.success = Bool(FALSE)
          /\ IsStr(res'.result.error)
          /\ Contains(res'.result.error.s, req'.args.uuid.s)
          /\ Contains(res'.result.error.s, req'.args.databaseName.s)
          /\ app' = app]_vars

\* The source and the destination a replicate_record request names by UUID, looked up
\* in the application as it is when the request arrives.
ReplicateSource(a, in) == AppRecordWithUuid(a, in.uuid.s)
ReplicateDestination(a, in) == AppRecordWithUuid(a, in.destinationGroupUuid.s)
CanReplicate(a, in) ==
    /\ ReplicateSource(a, in) # NoRec
    /\ ReplicateDestination(a, in) # NoRec
    /\ IsGroupType(a.recs[ReplicateDestination(a, in)].type)
    /\ a.recs[ReplicateSource(a, in)].db = a.recs[ReplicateDestination(a, in)].db

\* C27: a replicate_record request that names its source by UUID and whose source does
\* not resolve, whose destination does not resolve or is not a group, or whose source
\* and destination lie in different databases is answered with success false whenever
\* it is answered with a result, makes no replicate call and replicates nothing.
C27_ReplicateOnlyWhenAllowed ==
    [][(/\ res.kind = "none"
        /\ req'.tool = "replicate_record"
        /\ Truthy(req'.args.uuid)
        /\ ~CanReplicate(app, req'.args))
       => /\ res'.kind = "content" => res'.result.success = Bool(FALSE)
          /\ \A i \in 1..Len(extCalls') : extCalls'[i] # "replicate"
          /\ app'.replicas = app.replicas]_vars

\* What a search of the current database for the request's query finds, and what of it
\* has the request's recordType.
SearchFound == AppSearch(app, req.args.query.s, DatabaseScope(app.current))
SearchFiltered == FilterByType(app, SearchFound, req.args.recordType)
SearchLimit == IF req.args.limit = Undef THEN DefaultLimit ELSE req.args.limit.n

\* C28: a search of the current database with a numeric or absent limit that succeeds
\* returns at most limit results (50 when the limit is absent), the results are the
\* first entries of the type-filtered list in its order, and totalCount is the length
\* of the type-filtered list.
C28_SearchLimit ==
    (/\ req.tool = "search" /\ res.kind = "content" /\ res.result.success = Bool(TRUE)
     /\ env = "true"
     /\ req.args.limit.t \in {"undef", "num"}
     /\ req.args.groupUuid = Undef /\ req.args.databaseName = Undef
     /\ req.args.useCurrentGroup = Undef)
    => /\ Len(res.result.data.results) <= SearchLimit
       /\ Len(res.result.data.results) <= Len(SearchFiltered)
       /\ \A i \in 1..Len(res.result.data.results) :
             res.result.data.results[i] = RecUuid(SearchFiltered[i])
       /\ res.result.data.totalCount = Len(SearchFiltered)

\* The properties a set_record_properties request supplies, and the names the two
\* lists of its result hold (an entry of skipped is "<name>: <reason>").
Supplied(in) == {p \in {PropertyOrder[i] : i \in 1..Len(PropertyOrder)} : in[p] # Undef}
UpdatedNames(out) == {out.data.updated[i] : i \in 1..Len(out.data.updated)}
SkippedNames(out) == {out.data.skipped[i][1] : i \in 1..Len(out.data.skipped)}

\* C29: when set_record_properties has found its record, every property the input
\* supplies is named in exactly one of updated and skipped, no other property is named
\* in either, the properties assigned on the record are among those in updated, and
\* excludeFromTagging is not assigned on a record that is neither a group nor a smart
\* group.
C29_UpdatedOrSkipped ==
    [][(/\ res.kind = "none"
        /\ req'.tool = "set_record_properties"
        /\ res'.kind = "content" /\ res'.result.success = Bool(TRUE))
       => /\ \A p \in Supplied(req'.args) :
                (p \in UpdatedNames(res'.result)) # (p \in SkippedNames(res'.result))
          /\ UpdatedNames(res'.result) \cup SkippedNames(res'.result) \subseteq Supplied(req'.args)
          /\ \A x \in app'.assigned \ app.assigned : x[2] \in UpdatedNames(res'.result)
          /\ \A x \in app'.assigned \ app.assigned :
                x[2] = "excludeFromTagging" => IsGroupType(app.recs[x[1]].type)]_vars

\* The not-found errors of get_record_by_identifier, each naming its identifier.
UuidNotFound(in) == Str(<<"Record with UUID ">> \o in.uuid.s \o <<" not found">>)
IdNotFound(in) ==
    Str(<<"Record with ID ">> \o NumText(in.id.n) \o <<" not found in database '">>
            \o in.databaseName.s \o <<"'">>)

\* C30: a get_record_by_identifier request that has a uuid, or an id together with the
\* name of an open database or the empty name, and whose script ran with the
\* application answering, returns the record the UUID names or, without a UUID, the
\* record of that id in that database, or else fails with the not-found error that
\* names the identifier it looked up.
C30_OneLookupBranch ==
    (/\ req.tool = "get_record_by_identifier"
     /\ GetRecordByIdentifierSchema(req.args)
     /\ res.kind = "content" /\ execCalls = 1 /\ env = "true"
     /\ (req.args.uuid = Undef /\ req.args.databaseName.s # <<>>)
            => FindDatabase(req.args.databaseName.s) # 0)
    => IF req.args.uuid # Undef
       THEN IF AppRecordWithUuid(app, req.args.uuid.s) # NoRec
            THEN /\ res.result.success = Bool(TRUE)
                 /\ res.result.data.record.uuid = req.args.uuid.s
            ELSE /\ res.result.success = Bool(FALSE)
                 /\ res.result.error = UuidNotFound(req.args)
       ELSE IF /\ FindDatabase(req.args.databaseName.s) # 0
               /\ AppRecordWithId(app, FindDatabase(req.args.databaseName.s), req.args.id.n) # NoRec
            THEN /\ res.result.success = Bool(TRUE)
                 /\ res.result.data.record.id = req.args.id.n
            ELSE /\ res.result.success = Bool(FALSE)
                 /\ res.result.error = IdNotFound(req.args)

=============================================================================
